---- MODULE Spec2Model ----
(***************************************************************************)
(* State-machine model of the persona reply core of elio-discord-bot's     *)
(* ai-service: the cascade router, the generation ensemble, the Thompson   *)
(* sampling bandit, the corpus reload, the feedback path, the dialogue     *)
(* trackers, the style preferences, the keyword trie, the requests in      *)
(* flight on the shared bandit and the engine's reply.                     *)
(*                                                                         *)
(* Numbers.  Python floats are modelled by scaled integers:                *)
(*   - confidences in units of 1/ConfScale,                                *)
(*   - bandit parameters and rewards in units of 1/Unit,                   *)
(*   - context scores in units of 1/CtxScale.                              *)
(* Text.  A text is the sequence of its whitespace-separated words         *)
(* (str.split()), stored run-length encoded as a sequence of runs          *)
(* [w |-> word, n |-> repetitions]; the empty sequence stands for None,    *)
(* '' and blank text.                                                      *)
(***************************************************************************)
EXTENDS Integers, Sequences, FiniteSets, TLC

VARIABLES
    \* ---- CascadeRouter (services/cascade.py) ----
    blocked_patterns,   \* self.blocked_patterns: list of compiled patterns
    candidates,         \* the Candidate objects passed to the last route()
    routeCtx,           \* the context dict passed to the last route()
    persona_meta,       \* self.persona_meta: persona name -> metadata
    routed,             \* what the last route() returned / raised
    \* ---- ThompsonSamplingBandit (services/bandit.py) ----
    arm_names,          \* self.arm_names: list of arm identifiers
    arms,               \* self.arms: arm -> [alpha, beta]
    selection_count,    \* self._selection_count: arm -> int
    last_selection,     \* self._last_selection ("" for None)
    checkpoint,         \* the bandit document in the external store
    \* ---- EnsembleGenerator (services/ensemble.py) ----
    strategies,         \* self.strategies: the registered names, in dict order
    generated,          \* the last generate_candidates call and its result
    \* ---- reload (api/routers/reload_router.py, services/persona_logic.py) ----
    disk,               \* the training files under data/training
    ENGINE,             \* persona_logic.ENGINE, the module singleton
    persona_logic_engine, \* app.state.persona_logic_engine, the reload target
    static_indices,     \* the BM25, n-gram, PMI and trie singletons
    reload_response,    \* outcome of the last POST /reload/models
    status_seen,        \* body of the last GET /reload/status
    reply_seen,         \* what the last reply was computed from
    \* ---- EnhancedPersonaLogicEngine (services/enhanced_persona_logic.py) ----
    engine_last_selection, \* self._last_selection
    user_prefs,         \* response_cf.user_prefs: user -> (dim, style) -> counter
    feedback_call,      \* arguments of the record_feedback call in progress
    \* ---- DialogueHMMManager (services/hmm_dialogue.py) ----
    hmms,               \* manager.hmms: the trackers, in insertion order
    hmm_call,           \* the last call made on the manager
    \* ---- ResponseStyleCF (services/response_cf.py) ----
    global_prefs,       \* self.global_prefs: (dim, style) -> counter
    similarity_cache,   \* self._similarity_cache: (user, user) -> similarity
    cache_dirty,        \* self._cache_dirty
    cf_read,            \* the get_user_preferences call in progress
    \* ---- Trie (services/trie.py) ----
    trie,               \* a Trie: its nodes, case_sensitive and word_count
    trie_call,          \* the last call made on the trie
    \* ---- requests on the bandit (api/routers/hybrid_router.py) ----
    requests,           \* request -> its handler's position and locals
    \* ---- EnhancedPersonaLogicEngine.reply ----
    reply_call,         \* the reply call in progress and what it built
    \* ---- PersonaLogicEngine._resolve_persona (services/persona_logic.py) ----
    persona_names,      \* the keys of self.persona_meta, in dict order
    resolve_call,       \* the _resolve_persona call in progress
    \* ---- one list of Candidate objects routed repeatedly ----
    route_log,          \* the objects as built and after each route() call
    \* ---- CascadeRouter._score_context_fit on its own ----
    scored_call,        \* the _score_context_fit call in progress
    \* ---- EnsembleGenerator.select_candidate (services/ensemble.py) ----
    recent_outputs,     \* self._recent_outputs, the diversity history
    select_call,        \* the select_candidate call in progress
    \* ---- repeated ResponseStyleCF.update for one style ----
    cf_trial,           \* the updates made so far and the score before them
    \* ---- replies sent and not yet rated ----
    awaiting,           \* what was selected for each of them, oldest first
    \* ---- requests on the shared style preferences ----
    cf_requests         \* each request: its arguments and where it stands

banditVars == <<arm_names, arms, selection_count, last_selection, checkpoint>>

cascadeVars == <<blocked_patterns, candidates, routeCtx, persona_meta, routed>>

ensembleVars == <<strategies, generated>>

reloadVars == <<disk, ENGINE, persona_logic_engine, static_indices,
                reload_response, status_seen, reply_seen>>

feedbackVars == <<engine_last_selection, feedback_call>>

hmmVars == <<hmms, hmm_call>>

cfVars == <<user_prefs, global_prefs, similarity_cache, cache_dirty, cf_read>>

trieVars == <<trie, trie_call>>

loopVars == <<requests>>

replyVars == <<reply_call>>

personaVars == <<persona_names, resolve_call>>

rerouteVars == <<route_log>>

scoreVars == <<scored_call>>

selectVars == <<recent_outputs, select_call>>

trialVars == <<cf_trial>>

pendingVars == <<awaiting>>

cfLoopVars == <<cf_requests>>

(***************************************************************************)
(*                         CascadeRouter                                   *)
(***************************************************************************)

\* ---- bounds ----
MaxCandidates == 2      \* length of the candidate list handed to route()
MaxPatterns == 2        \* length of the blocked-pattern list

\* ---- units ----
ConfScale == 10000
CtxScale == 10000000

\* Words the modelled texts are made of.
Vocab == {"hello", "space", "DAMN", "spam", "well", "wow!",
          "{name}", "{name", "*waves*", "*waves"}

\* str.lower() of a word.
Lower(w) == IF w = "DAMN" THEN "damn" ELSE w

\* text.count('{'), text.count('}'), text.count('*') of one word.
OpenBraces(w) == IF w \in {"{name}", "{name"} THEN 1 ELSE 0
CloseBraces(w) == IF w = "{name}" THEN 1 ELSE 0
Stars(w) == CASE w = "*waves*" -> 2 [] w = "*waves" -> 1 [] OTHER -> 0

\* The word a token presents between regex word boundaries (\b...\b):
\* braces and asterisks are not word characters.
Bare(w) == CASE w \in {"{name}", "{name"} -> "name"
             [] w \in {"*waves*", "*waves"} -> "waves"
             [] w = "wow!" -> "wow"
             [] OTHER -> Lower(w)

\* len(text.split())
RECURSIVE WordCount(_)
WordCount(text) ==
    IF text = <<>> THEN 0 ELSE Head(text).n + WordCount(Tail(text))

\* text.count('{')
RECURSIVE CountOpen(_)
CountOpen(text) ==
    IF text = <<>> THEN 0
    ELSE OpenBraces(Head(text).w) * Head(text).n + CountOpen(Tail(text))

\* text.count('}')
RECURSIVE CountClose(_)
CountClose(text) ==
    IF text = <<>> THEN 0
    ELSE CloseBraces(Head(text).w) * Head(text).n + CountClose(Tail(text))

\* text.count('*')
RECURSIVE CountStars(_)
CountStars(text) ==
    IF text = <<>> THEN 0
    ELSE Stars(Head(text).w) * Head(text).n + CountStars(Tail(text))

\* The text made of the given words.
Words(ws) == [i \in 1..Len(ws) |-> [w |-> ws[i], n |-> 1]]

\* The text of n words w.
Repeat(w, n) == << [w |-> w, n |-> n] >>

\* A blocked pattern r'\b(w1|w2|...)\b' compiled with re.IGNORECASE,
\* represented by its set of alternatives.
BLOCKED_PATTERNS == << {"fuck", "shit", "damn", "hell"} >>

PatternSearchCaseSensitive(p, text) ==
    \E i \in 1..Len(text) : text[i].w \in p

\* pattern.search(text): some word of the text is one of the alternatives,
\* case-insensitively.
PatternSearch(p, text) == \E i \in 1..Len(text) : Bare(text[i].w) \in p

passes_content_filter(patterns, text) ==
    \A k \in 1..Len(patterns) : ~PatternSearch(patterns[k], text)

\* PERSONA_KEYWORDS, keyed by lower-cased persona name.
PERSONA_KEYWORDS(p) ==
    CASE p = "elio" -> {"space", "cosmic", "stars", "alien", "lonely",
                         "curious", "amazing"}
      [] p = "glordon" -> {"haha", "funny", "friend", "play", "joke"}
      [] p = "olga" -> {"discipline", "proper", "important", "listen",
                         "understand"}
      [] OTHER -> {}

\* The keywords of the router's tables that occur as substrings of the
\* lower-cased word.
KeywordsIn(w) ==
    CASE w = "hello" -> {"hello"}
      [] w = "space" -> {"space"}
      [] w = "wow!" -> {"wow", "!"}
      [] OTHER -> {}

\* `kw in text` for the lower-cased text: substring test (no keyword that
\* spans two words occurs in a text over Vocab).
KwIn(kw, text) == \E i \in 1..Len(text) : kw \in KeywordsIn(text[i].w)

LowerName(p) == CASE p = "Elio" -> "elio" [] p = "Olga" -> "olga"
                  [] OTHER -> p

passes_persona_consistency(cand, context) ==
    LET persona == LowerName(context.persona)
        keywords == PERSONA_KEYWORDS(persona)
        matches == Cardinality({kw \in keywords : KwIn(kw, cand.text)})
    IN  IF keywords = {} THEN TRUE
        ELSE matches > 0 \/ WordCount(cand.text) < 20

\* candidate.confidence left as it is by rule 4
Unpenalised(conf) == conf

\* candidate.confidence *= 0.7
Penalised(conf) == (conf * 7) \div 10

HardRejected(patterns, text) ==
    \/ text = <<>>                                        \* Rule 1
    \/ ~passes_content_filter(patterns, text)             \* Rule 2
    \/ WordCount(text) < 2 \/ WordCount(text) > 150       \* Rule 3
    \/ CountOpen(text) # CountClose(text)   \* Rule 5
    \/ CountStars(text) % 2 # 0

\* The candidate objects after the loop of _apply_safety_rules: rule 4
\* lowers the confidence of a candidate that reached it, whether or not
\* rule 5 then drops it.
ReachesRule4(patterns, text) ==
    /\ text # <<>>
    /\ passes_content_filter(patterns, text)
    /\ ~(WordCount(text) < 2 \/ WordCount(text) > 150)

AfterSafety(patterns, cands, context) ==
    [i \in 1..Len(cands) |->
        IF /\ ReachesRule4(patterns, cands[i].text)
           /\ ~passes_persona_consistency(cands[i], context)
        THEN [cands[i] EXCEPT !.confidence = Penalised(@)]
        ELSE cands[i]]

\* Indices of the candidates appended to `safe`, in list order.
RECURSIVE SafeFrom(_, _, _)
SafeFrom(patterns, cands, i) ==
    IF i > Len(cands) THEN <<>>
    ELSE (IF HardRejected(patterns, cands[i].text) THEN <<>> ELSE <<i>>)
         \o SafeFrom(patterns, cands, i + 1)

apply_safety_rules(patterns, cands) == SafeFrom(patterns, cands, 1)

Min(a, b) == IF a < b THEN a ELSE b
Max(a, b) == IF a > b THEN a ELSE b

\* ---- Layer 2: context scoring ----

\* _scenario_match_score, in tenths.
scenario_match_score(cand, scenario) ==
    CASE scenario = "greeting" ->
            IF \E w \in {"hi", "hello", "hey", "welcome", "nice to"} :
                   KwIn(w, cand.text) THEN 13 ELSE 10
      [] scenario = "advice" ->
            IF \E w \in {"think", "suggest", "maybe", "try", "could"} :
                   KwIn(w, cand.text) THEN 12 ELSE 10
      [] scenario = "feelings" ->
            IF \E w \in {"feel", "understand", "care", "support"} :
                   KwIn(w, cand.text) THEN 12 ELSE 10
      [] OTHER -> 10

mood_indicators(mood) ==
    CASE mood = "excited" -> {"!", "wow", "amazing", "awesome", "incredible"}
      [] mood = "curious" -> {"?", "wonder", "how", "why", "what"}
      [] mood = "warm" -> {"smile", "glad", "happy", "care", "appreciate"}
      [] mood = "playful" -> {"haha", "lol", "funny", "joke", "play"}
      [] mood = "concerned" -> {"worried", "careful", "make sure", "okay"}
      [] OTHER -> {}

\* _mood_alignment_score, in tenths.
mood_alignment_score(cand, mood) ==
    LET indicators == mood_indicators(mood)
        matches == Cardinality({ind \in indicators : KwIn(ind, cand.text)})
    IN  IF indicators = {} THEN 10
        ELSE IF matches > 0 THEN 10 + Min(matches, 3)
        ELSE 9

\* set(text.lower().split())
WordSet(text) == {Lower(text[i].w) : i \in 1..Len(text)}

\* history[-3:]
LastN(s, n) == IF Len(s) <= n THEN s ELSE SubSeq(s, Len(s) - n + 1, Len(s))

\* _history_coherence_score, in tenths.
history_coherence_score(cand, history) ==
    LET recent == LastN(history, 3)
        text_words == WordSet(cand.text)
    IN  IF \E i \in 1..Len(recent) :
              /\ recent[i].role = "assistant"
              /\ text_words # {}
              /\ WordSet(recent[i].content) # {}
              /\ 2 * Cardinality(text_words \cap WordSet(recent[i].content))
                   > Cardinality(text_words \cup WordSet(recent[i].content))
        THEN 5 ELSE 10

\* 1.1 ** k, in units of 1/10000.
Pow11(k) == CASE k = 0 -> 10000 [] k = 1 -> 11000 [] k = 2 -> 12100
              [] k = 3 -> 13310 [] k = 4 -> 14641 [] OTHER -> 16105

\* len(word): number of characters of a word of a speaking style.
WordLen(w) == CASE w = "space" -> 5 [] w = "well" -> 4 [] w = "hello" -> 5
                [] w = "wow" -> 3 [] OTHER -> 4

\* _persona_style_score, in units of 1/10000.
persona_style_score(meta, cand, persona) ==
    IF persona \notin DOMAIN meta THEN 10000
    ELSE LET style_words == SubSeq(meta[persona].speaking_style, 1,
                                   Min(5, Len(meta[persona].speaking_style)))
             hits == Cardinality({i \in 1..Len(style_words) :
                         /\ WordLen(style_words[i]) > 3
                         /\ KwIn(style_words[i], cand.text)})
         IN  Min(15000, Pow11(hits))

\* The context score _score_context_fit gives one candidate, in units of
\* 1/CtxScale: each factor applies only when its context key is truthy.
context_fit(meta, cand, context) ==
    LET scen == IF context.scenario # "" THEN
                    scenario_match_score(cand, context.scenario) ELSE 10
        mood == IF context.mood # "" THEN
                    mood_alignment_score(cand, context.mood) ELSE 10
        hist == IF context.history # <<>> THEN
                    history_coherence_score(cand, context.history) ELSE 10
        style == IF context.persona # "" THEN
                    persona_style_score(meta, cand, context.persona) ELSE 10000
    IN  Max(CtxScale \div 10, scen * mood * hist * style)

\* _score_context_fit: sets context_score of every safe candidate.
score_context_fit(meta, cands, safe, context) ==
    [i \in 1..Len(cands) |->
        IF \E k \in 1..Len(safe) : safe[k] = i
        THEN [cands[i] EXCEPT !.context_score = context_fit(meta, cands[i], context)]
        ELSE cands[i]]

\* ---- Layer 3: probabilistic selection ----

\* Candidate.final_score, in units of 1/ConfScale (truncated).
final_score(c) ==
    (((((c.confidence * c.weight) \div ConfScale) * c.cf_score) \div ConfScale)
        * (c.context_score \div (CtxScale \div 1000))) \div 1000

\* The weight of a candidate in the draw: max(0.05, final_score).
SelectWeight(c) == Max(ConfScale \div 20, final_score(c))

\* _probabilistic_select: the outcomes random.random() can produce.  Every
\* candidate with a positive share of the cumulative weights can be drawn;
\* an empty list raises ValueError.
probabilistic_select(cands, safe) ==
    IF safe = <<>> THEN {[kind |-> "raise", idx |-> 0]}
    ELSE {[kind |-> "candidate", idx |-> safe[k], cand |-> cands[safe[k]]] :
            k \in {j \in 1..Len(safe) : SelectWeight(cands[safe[j]]) > 0}}

\* ---- fallback ----
GenericFallbacks == { Words(<<"I'm", "here", "to", "help!">>),
                      Words(<<"That's", "interesting.">>),
                      Words(<<"Tell", "me", "more!">>),
                      Words(<<"I", "appreciate", "you", "sharing", "that.">>) }

\* _create_fallback: the outcomes random.choice can produce.
create_fallback(meta, context) ==
    LET persona == IF context.persona = "" THEN "default" ELSE context.persona
        openers == IF persona \in DOMAIN meta THEN meta[persona].openers ELSE {}
        texts == IF openers # {} THEN openers ELSE GenericFallbacks
    IN  {[kind |-> "candidate", idx |-> 0,
          cand |-> [text |-> t, source |-> "fallback",
                    confidence |-> ConfScale \div 10, weight |-> ConfScale,
                    cf_score |-> ConfScale, context_score |-> CtxScale]] :
            t \in texts}

\* cf_scores applied to the candidates (route, lines 69-72).
ApplyCf(cands, cf_scores) ==
    [i \in 1..Len(cands) |->
        IF i <= Len(cf_scores) THEN [cands[i] EXCEPT !.cf_score = cf_scores[i]]
        ELSE cands[i]]

\* route() without the `if not safe_candidates` fallback.
route_without_safe_check(patterns, meta, context, cands, cf_scores) ==
    IF cands = <<>> THEN
        {<<cands, r>> : r \in create_fallback(meta, context)}
    ELSE
        LET withCf == ApplyCf(cands, cf_scores)
            after == AfterSafety(patterns, withCf, context)
            safe == apply_safety_rules(patterns, withCf)
            scored == score_context_fit(meta, after, safe, context)
        IN  {<<scored, r>> : r \in probabilistic_select(scored, safe)}

\* CascadeRouter.route: the pairs <<candidate objects afterwards, result>>
\* a call can produce.
route(patterns, meta, context, cands, cf_scores) ==
    IF cands = <<>> THEN
        {<<cands, r>> : r \in create_fallback(meta, context)}
    ELSE
        LET withCf == ApplyCf(cands, cf_scores)
            after == AfterSafety(patterns, withCf, context)
            safe == apply_safety_rules(patterns, withCf)
        IN  IF safe = <<>> THEN
                {<<after, r>> : r \in create_fallback(meta, context)}
            ELSE
                LET scored == score_context_fit(meta, after, safe, context)
                IN  {<<scored, r>> : r \in probabilistic_select(scored, safe)}

\* ---- inputs of the cascade operations ----
Candidate(text, source, confidence) ==
    [text |-> text, source |-> source, confidence |-> confidence,
     weight |-> ConfScale, cf_score |-> ConfScale, context_score |-> CtxScale]

\* One candidate per generating strategy, in registration order; the list
\* handed to route() is a sub-list of these.
CandidatePool ==
    << Candidate(<<>>, "tfidf_markov", 9000),
       Candidate(Words(<<"hello">>), "template_fill", 9000),
       Candidate(Words(<<"hello", "space">>), "ngram_blend", 8000),
       Candidate(Words(<<"*waves*", "{name}", "wow!">>), "fallback", 5000),
       Candidate(Words(<<"hello", "DAMN">>), "retrieval_mod", 9000),
       Candidate(Words(<<"hello", "spam">>), "bm25_retrieve", 6000),
       Candidate(Words(<<"hello", "{name">>), "ngram_lm", 7000),
       Candidate(Words(<<"*waves", "hello">>), "pmi_expand", 7000),
       Candidate(Repeat("well", 150), "hybrid_blend", 5000),
       Candidate(Repeat("well", 151), "hybrid_blend", 9000) >>

\* The k-th smallest element of a set of numbers.
KthSmallest(S, k) == CHOOSE x \in S : Cardinality({y \in S : y < x}) = k - 1

\* The sub-lists of pool with at most n elements.
SubLists(pool, n) ==
    { [k \in 1..Cardinality(sel) |-> pool[KthSmallest(sel, k)]] :
        sel \in {x \in SUBSET (1..Len(pool)) : Cardinality(x) <= n} }

CandidateLists == SubLists(CandidatePool, MaxCandidates)

\* The calls made: a context dict ("" stands for a missing or falsy key)
\* and the optional cf_scores list.
RouteCalls ==
    { [context |-> [persona |-> "test", scenario |-> "advice",
                    mood |-> "curious",
                    history |-> << [role |-> "assistant",
                                    content |-> Words(<<"well">>)] >>],
       cf_scores |-> <<>>],
      [context |-> [persona |-> "Elio", scenario |-> "greeting",
                    mood |-> "excited",
                    history |-> << [role |-> "user", content |-> Words(<<"hello">>)],
                                   [role |-> "assistant",
                                    content |-> Words(<<"hello", "space">>)] >>],
       cf_scores |-> <<ConfScale \div 2>>],
      [context |-> [persona |-> "", scenario |-> "advice", mood |-> "curious",
                    history |-> << [role |-> "assistant",
                                    content |-> Words(<<"well">>)] >>],
       cf_scores |-> <<>>] }

\* personas.json as the enhanced engine hands it to set_persona_meta.
NoMeta == [p \in {} |-> [openers |-> {}, speaking_style |-> <<>>]]
PERSONA_META ==
    [p \in {"Elio"} |->
        [openers |-> { Words(<<"hello", "space">>), Words(<<"wow!">>) },
         speaking_style |-> <<"space", "well", "wow">>]]

AddablePatterns == { {"spam"} }

NoContext == [persona |-> "", scenario |-> "", mood |-> "", history |-> <<>>]
NoResult == [kind |-> "none", idx |-> 0]

CascadeInit ==
    /\ blocked_patterns = BLOCKED_PATTERNS
    /\ persona_meta = NoMeta
    /\ candidates = <<>>
    /\ routeCtx = NoContext
    /\ routed = NoResult

\* router.route(context, candidates, cf_scores), called on the candidates
\* of a new request.
Route ==
    /\ routed = NoResult
    /\ \E call \in RouteCalls, cands \in CandidateLists :
      \E out \in route(blocked_patterns, persona_meta, call.context, cands,
                        call.cf_scores) :
        /\ candidates' = out[1]
        /\ routed' = out[2]
        /\ routeCtx' = call.context
        /\ UNCHANGED <<blocked_patterns, persona_meta>>

\* The caller is done with the result: the request's context and Candidate
\* objects are dropped.
ReleaseCandidates ==
    /\ routed # NoResult
    /\ candidates' = <<>>
    /\ routeCtx' = NoContext
    /\ routed' = NoResult
    /\ UNCHANGED <<blocked_patterns, persona_meta>>

\* router.add_blocked_pattern(pattern)
AddBlockedPattern ==
    /\ Len(blocked_patterns) < MaxPatterns
    /\ \E p \in AddablePatterns :
         blocked_patterns' = Append(blocked_patterns, p)
    /\ UNCHANGED <<candidates, routeCtx, persona_meta, routed>>

\* router.set_persona_meta(persona_meta)
SetPersonaMeta ==
    /\ \E m \in {NoMeta, PERSONA_META} : persona_meta' = m
    /\ UNCHANGED <<blocked_patterns, candidates, routeCtx, routed>>


(***************************************************************************)
(*                       ThompsonSamplingBandit                            *)
(***************************************************************************)

\* ---- bounds ----
MaxParam == 7           \* cap on alpha and beta, in units of 1/Unit
MaxSelections == 1      \* cap on a selection counter
MaxBatch == 2           \* length of a batch_update list

\* alpha, beta and rewards are counted in quarters.
Unit == 4

ArmIds == {"tfidf_markov", "template_fill"}
ArmQueries == ArmIds \cup {"unknown"}

\* Values given for prior_alpha / prior_beta and to add_arm: 0.0 and 1.0.
PriorValues == {0, Unit}

\* Rewards passed to update: -1.0, 0.0, 0.25, 0.5, 1.0, 2.0.
Rewards == {0 - Unit, 0, 1, 2, Unit, 2 * Unit}

\* max(0.0, min(1.0, reward))
Clamp(reward) == Max(0, Min(Unit, reward))

\* ThompsonSamplingBandit.__init__: the arms table of a new bandit.
NewArms(names, prior_alpha, prior_beta) ==
    [a \in {names[i] : i \in 1..Len(names)} |->
        [alpha |-> prior_alpha, beta |-> prior_beta]]

NewCounts(names) == [a \in {names[i] : i \in 1..Len(names)} |-> 0]

\* update() that adds the reward to alpha whatever the reward.
update_always_alpha(table, arm, reward) ==
    IF arm \notin DOMAIN table THEN table
    ELSE [table EXCEPT ![arm].alpha = @ + Clamp(reward)]

\* ThompsonSamplingBandit.update: the arms table afterwards.
update(table, arm, reward) ==
    IF arm \notin DOMAIN table THEN table
    ELSE LET r == Clamp(reward)
         IN  IF 2 * r >= Unit
             THEN [table EXCEPT ![arm].alpha = @ + r]
             ELSE [table EXCEPT ![arm].beta = @ + (Unit - r)]

\* An entry of a batch_update list: arm is update.get('arm') or
\* update.get('strategy') ("" when neither is given), reward is <<r>> or
\* <<>> when the key is missing (default 0.5).
BatchEntries ==
    { [arm |-> "tfidf_markov", reward |-> <<Unit>>],
      [arm |-> "template_fill", reward |-> <<0>>],
      [arm |-> "unknown", reward |-> <<Unit>>],
      [arm |-> "", reward |-> <<Unit>>],
      [arm |-> "tfidf_markov", reward |-> <<>>] }

RECURSIVE batch_update(_, _)
batch_update(table, updates) ==
    IF updates = <<>> THEN table
    ELSE LET u == Head(updates)
             reward == IF u.reward = <<>> THEN Unit \div 2 ELSE u.reward[1]
             next == IF u.arm # "" THEN update(table, u.arm, reward) ELSE table
         IN  batch_update(next, Tail(updates))

\* ThompsonSamplingBandit.get_weight: alpha / (alpha + beta) as the fraction
\* num/den, 0.5 for an unknown arm, ZeroDivisionError when alpha + beta = 0.
get_weight(table, arm) ==
    IF arm \notin DOMAIN table THEN [kind |-> "value", num |-> 1, den |-> 2]
    ELSE IF table[arm].alpha + table[arm].beta = 0 THEN
        [kind |-> "raise", num |-> 0, den |-> 0]
    ELSE [kind |-> "value", num |-> table[arm].alpha,
          den |-> table[arm].alpha + table[arm].beta]

\* The largest alpha or beta of a table.
WithinCap(table) ==
    \A a \in DOMAIN table : table[a].alpha <= MaxParam /\ table[a].beta <= MaxParam

\* list.remove(x)
RECURSIVE ListRemove(_, _)
ListRemove(l, x) ==
    IF l = <<>> THEN <<>>
    ELSE IF Head(l) = x THEN Tail(l)
    ELSE <<Head(l)>> \o ListRemove(Tail(l), x)

\* f with key k removed / set.
DictDel(f, k) == [x \in (DOMAIN f) \ {k} |-> f[x]]
DictSet(f, k, v) == [x \in (DOMAIN f) \cup {k} |-> IF x = k THEN v ELSE f[x]]

NoDoc == [present |-> FALSE]

\* ThompsonSamplingBandit(arm_names, prior_alpha, prior_beta)
BanditInit ==
    /\ arm_names \in {<<>>, <<"tfidf_markov">>, <<"tfidf_markov", "template_fill">>}
    /\ \E pa \in PriorValues, pb \in PriorValues :
          arms = NewArms(arm_names, pa, pb)
    /\ selection_count = NewCounts(arm_names)
    /\ last_selection = ""
    /\ checkpoint = NoDoc

\* The bandit the application builds: get_persona_bandit().
DefaultBanditInit ==
    /\ arm_names = <<"tfidf_markov", "template_fill">>
    /\ arms = NewArms(arm_names, Unit, Unit)
    /\ selection_count = NewCounts(arm_names)
    /\ last_selection = ""
    /\ checkpoint = NoDoc

\* bandit.update(arm, reward)
UpdateCall(arm, reward) ==
    /\ WithinCap(update(arms, arm, reward))
    /\ arms' = update(arms, arm, reward)
    /\ UNCHANGED <<arm_names, selection_count, last_selection, checkpoint>>

Update == \E arm \in ArmQueries, reward \in Rewards : UpdateCall(arm, reward)

\* bandit.batch_update(updates)
BatchUpdateCall(updates) ==
    /\ WithinCap(batch_update(arms, updates))
    /\ arms' = batch_update(arms, updates)
    /\ UNCHANGED <<arm_names, selection_count, last_selection, checkpoint>>

BatchUpdate ==
    \E n \in 1..MaxBatch : \E updates \in [1..n -> BatchEntries] :
        BatchUpdateCall(updates)

\* reset(arm) that restores nothing.
reset_keeps(table, arm) == table

\* The arms table after bandit.reset(arm) with an arm name.
reset(table, arm) ==
    IF arm \in DOMAIN table
    THEN [table EXCEPT ![arm] = [alpha |-> Unit, beta |-> Unit]]
    ELSE table

\* bandit.reset(arm) with an arm name
ResetCall(arm) ==
    /\ arms' = reset(arms, arm)
    /\ IF arm \in DOMAIN arms
       THEN selection_count' = DictSet(selection_count, arm, 0)
       ELSE UNCHANGED selection_count
    /\ UNCHANGED <<arm_names, last_selection, checkpoint>>

Reset == \E arm \in ArmQueries : ResetCall(arm)

\* The loop of reset() over arm_names[i..].
RECURSIVE ResetFrom(_, _, _)
ResetFrom(table, names, v) ==
    IF names = <<>> THEN table
    ELSE ResetFrom(DictSet(table, Head(names), v), Tail(names), v)

\* bandit.reset() without an arm name
ResetAll ==
    /\ arms' = ResetFrom(arms, arm_names, [alpha |-> Unit, beta |-> Unit])
    /\ selection_count' = ResetFrom(selection_count, arm_names, 0)
    /\ UNCHANGED <<arm_names, last_selection, checkpoint>>

\* bandit.add_arm(arm_name, alpha, beta)
AddArm ==
    \E arm \in ArmIds, alpha \in PriorValues, beta \in PriorValues :
        /\ IF arm \notin DOMAIN arms
           THEN /\ arm_names' = Append(arm_names, arm)
                /\ arms' = DictSet(arms, arm, [alpha |-> alpha, beta |-> beta])
                /\ selection_count' = DictSet(selection_count, arm, 0)
           ELSE UNCHANGED <<arm_names, arms, selection_count>>
        /\ UNCHANGED <<last_selection, checkpoint>>

\* bandit.remove_arm(arm_name)
RemoveArm ==
    \E arm \in ArmQueries :
        /\ IF arm \in DOMAIN arms
           THEN /\ arms' = DictDel(arms, arm)
                /\ arm_names' = ListRemove(arm_names, arm)
                /\ selection_count' = DictDel(selection_count, arm)
           ELSE UNCHANGED <<arm_names, arms, selection_count>>
        /\ UNCHANGED <<last_selection, checkpoint>>

\* bandit.select_arm(): np.random.beta raises for a non-positive parameter
\* and max() raises for an empty table, both before anything is assigned;
\* otherwise any arm can hold the largest sample.
SelectArm ==
    /\ DOMAIN arms # {}
    /\ \A a \in DOMAIN arms : arms[a].alpha > 0 /\ arms[a].beta > 0
    /\ \E selected \in DOMAIN arms :
        /\ selection_count[selected] < MaxSelections
        /\ last_selection' = selected
        /\ selection_count' = [selection_count EXCEPT ![selected] = @ + 1]
    /\ UNCHANGED <<arm_names, arms, checkpoint>>

\* bandit.to_dict(), as written to the store by save_state.
to_dict == [present |-> TRUE, arm_names |-> arm_names, arms |-> arms,
            selection_count |-> selection_count]

\* bandit.save_state(collection)
SaveState ==
    /\ checkpoint' = to_dict
    /\ UNCHANGED <<arm_names, arms, selection_count, last_selection>>

\* The process restarts with bandit = load_state(collection, default_arms):
\* from_dict of the stored document, else a new bandit on default_arms, or
\* on ['default'] when none are given.
LoadState ==
    /\ IF checkpoint.present
       THEN /\ arm_names' = checkpoint.arm_names
            /\ arms' = checkpoint.arms
            /\ selection_count' = checkpoint.selection_count
       ELSE \E default_arms \in {<<>>, <<"tfidf_markov">>} :
              LET names == IF default_arms # <<>> THEN default_arms
                           ELSE <<"default">>
              IN  /\ arm_names' = names
                  /\ arms' = NewArms(names, Unit, Unit)
                  /\ selection_count' = NewCounts(names)
    /\ last_selection' = ""
    /\ UNCHANGED checkpoint

(***************************************************************************)
(*                 EnsembleGenerator (services/ensemble.py)                *)
(***************************************************************************)

\* ---- bounds ----
MaxStrategies == 2      \* strategies registered with the ensemble

StrategyNames == {"tfidf_markov", "template_fill", "ngram_blend"}

\* What a registered generator does with the context: raise, return None,
\* or return a dict ('text' and 'confidence' may be missing: <<>>).
GeneratorOutcomes ==
    { [kind |-> "raise", text |-> <<>>, confidence |-> <<>>],
      [kind |-> "none", text |-> <<>>, confidence |-> <<>>],
      [kind |-> "dict", text |-> <<>>, confidence |-> <<>>],
      [kind |-> "dict", text |-> <<>>, confidence |-> <<0>>],
      [kind |-> "dict", text |-> Words(<<"hello">>), confidence |-> <<>>],
      [kind |-> "dict", text |-> Words(<<"hello", "space">>),
       confidence |-> <<9000>>] }

\* A bandit weight num/den in units of 1/ConfScale.
WeightOf(w) == (w.num * ConfScale) \div w.den

\* The body of the try block for one strategy.  "exception" when get_weight
\* or the generator raises; the generator is invoked only after get_weight
\* returned.
StrategyStep(table, name, outcome) ==
    LET w == get_weight(table, name)
    IN  IF w.kind = "raise" THEN
            [kind |-> "exception", invoked |-> FALSE, cands |-> <<>>]
        ELSE IF outcome.kind = "raise" THEN
            [kind |-> "exception", invoked |-> TRUE, cands |-> <<>>]
        ELSE IF outcome.kind = "none" \/ outcome.text = <<>> THEN
            [kind |-> "ok", invoked |-> TRUE, cands |-> <<>>]
        ELSE
            [kind |-> "ok", invoked |-> TRUE,
             cands |-> << [Candidate(outcome.text, name,
                              IF outcome.confidence = <<>> THEN ConfScale \div 2
                              ELSE outcome.confidence[1])
                           EXCEPT !.weight = WeightOf(w)] >>]

\* The candidates appended by the loop from strategy i on.
RECURSIVE Collected(_, _, _, _)
Collected(strats, table, outcomes, i) ==
    IF i > Len(strats) THEN <<>>
    ELSE StrategyStep(table, strats[i], outcomes[i]).cands
         \o Collected(strats, table, outcomes, i + 1)

\* generate_candidates without the try/except around a strategy.
generate_candidates_unguarded(strats, table, outcomes) ==
    IF \E i \in 1..Len(strats) :
          StrategyStep(table, strats[i], outcomes[i]).kind = "exception"
    THEN [kind |-> "raise", cands |-> <<>>]
    ELSE [kind |-> "return", cands |-> Collected(strats, table, outcomes, 1)]

\* EnsembleGenerator.generate_candidates: an exception of a strategy is
\* logged and the loop goes on.
generate_candidates(strats, table, outcomes) ==
    [kind |-> "return", cands |-> Collected(strats, table, outcomes, 1)]

Range(l) == {l[i] : i \in 1..Len(l)}

NoGen == [kind |-> "none"]

\* EnsembleGenerator(bandit)
EnsembleInit ==
    /\ strategies = <<>>
    /\ generated = NoGen

\* ensemble.register_strategy(name, generator); the dict keeps a name at
\* the position of its first registration.
RegisterStrategy ==
    /\ generated = NoGen
    /\ \E name \in StrategyNames :
        /\ name \in Range(strategies) \/ Len(strategies) < MaxStrategies
        /\ strategies' = IF name \in Range(strategies) THEN strategies
                         ELSE Append(strategies, name)
        /\ IF name \notin Range(arm_names) /\ name \notin DOMAIN arms
           THEN /\ arm_names' = Append(arm_names, name)
                /\ arms' = DictSet(arms, name, [alpha |-> Unit, beta |-> Unit])
                /\ selection_count' = DictSet(selection_count, name, 0)
           ELSE UNCHANGED <<arm_names, arms, selection_count>>
    /\ UNCHANGED <<generated, last_selection, checkpoint>>

\* ensemble.generate_candidates(context)
GenerateCandidates ==
    /\ generated = NoGen
    /\ \E outcomes \in [1..Len(strategies) -> GeneratorOutcomes] :
          generated' =
              [kind |-> "call",
               outcomes |-> outcomes,
               invoked |-> [i \in 1..Len(strategies) |->
                   StrategyStep(arms, strategies[i], outcomes[i]).invoked],
               result |-> generate_candidates(strategies, arms, outcomes)]
    /\ UNCHANGED <<strategies, banditVars>>

\* The caller is done with the returned list.
ReleaseGenerated ==
    /\ generated # NoGen
    /\ generated' = NoGen
    /\ UNCHANGED <<strategies, banditVars>>

(***************************************************************************)
(*        Model hot-reload (api/routers/reload_router.py) and the          *)
(*        PersonaLogicEngine instances (services/persona_logic.py)         *)
(***************************************************************************)

\* ---- bounds ----
MaxSamples == 2         \* training samples of a persona on disk

\* The training files: unreadable (json.loads raises), or samples of one
\* persona whose texts TfidfVectorizer can or cannot fit.
DiskStates ==
    {[kind |-> "corrupt", samples |-> 0, fits |-> FALSE]} \cup
    {d \in [kind : {"data"}, samples : 0..MaxSamples, fits : BOOLEAN] :
        d.samples = 0 => d.fits}

NoPersonas == [p \in {} |-> 0]

\* PersonaLogicEngine._load_corpus: persona -> number of samples, with the
\* pooled "default" entry when there is any sample.
load_corpus(d) ==
    IF d.kind = "corrupt" THEN [kind |-> "raise"]
    ELSE [kind |-> "value",
          corpus |-> [counts |-> IF d.samples = 0 THEN NoPersonas
                                 ELSE [p \in {"Elio", "default"} |-> d.samples],
                      fits |-> d.fits]]

\* PersonaLogicEngine._build_models over a corpus: one PersonaModel per
\* persona holding its samples; vectorizer.fit_transform may raise.
build_models(corpus) ==
    IF DOMAIN corpus.counts # {} /\ ~corpus.fits THEN [kind |-> "raise"]
    ELSE [kind |-> "value",
          models |-> [p \in DOMAIN corpus.counts |->
                         [samples |-> corpus.counts[p]]]]

\* PersonaLogicEngine(): corpus, then models built from it.
NewEngine(d) ==
    [corpus |-> load_corpus(d).corpus,
     models |-> build_models(load_corpus(d).corpus).models]

\* Training data the service can start on.
StartDisks ==
    {d \in DiskStates : /\ load_corpus(d).kind = "value"
                        /\ build_models(load_corpus(d).corpus).kind = "value"}

\* get_persona_bm25() and the other static indices, read from the training
\* file when first asked for.
StaticIndices(d) == [samples |-> d.samples]

ReloadServices == {"persona_logic", "markov", "all"}

NoStatus == [kind |-> "none"]

NoReply == [kind |-> "none"]

\* The process starts on disk d: ENGINE at import, the application's
\* engine in lifespan, handed to set_persona_logic_engine.
ReloadStart(d) ==
    /\ disk = d
    /\ ENGINE = NewEngine(d)
    /\ persona_logic_engine = NewEngine(d)
    /\ static_indices = StaticIndices(d)
    /\ reload_response = "none"
    /\ status_seen = NoStatus
    /\ reply_seen = NoReply

ReloadInit == \E d \in StartDisks : ReloadStart(d)

DefaultReloadInit ==
    ReloadStart([kind |-> "data", samples |-> MaxSamples, fits |-> TRUE])

\* The training files are replaced.
EditTrainingData ==
    /\ \E d \in DiskStates : d # disk /\ disk' = d
    /\ UNCHANGED <<ENGINE, persona_logic_engine, static_indices,
                   reload_response, status_seen, reply_seen>>

\* POST /reload/models.  The coroutine never awaits, so it runs from its
\* first statement to its return or raise in one piece.
ReloadModels ==
    /\ reload_response = "none"
    /\ \E service \in ReloadServices :
        IF service \in {"persona_logic", "all"}
        THEN LET l == load_corpus(disk)
             IN  IF l.kind = "raise"
                 THEN /\ reload_response' = "error"
                      /\ UNCHANGED persona_logic_engine
                 ELSE LET b == build_models(l.corpus)
                      IN  IF b.kind = "raise"
                          THEN /\ reload_response' = "error"
                               /\ persona_logic_engine' =
                                    [persona_logic_engine
                                        EXCEPT !.corpus = l.corpus]
                          ELSE /\ reload_response' = "ok"
                               /\ persona_logic_engine' =
                                    [corpus |-> l.corpus, models |-> b.models]
        ELSE /\ reload_response' = "ok"
             /\ UNCHANGED persona_logic_engine
    /\ status_seen' = NoStatus
    /\ reply_seen' = NoReply
    /\ UNCHANGED <<disk, ENGINE, static_indices>>

\* The client has read the reload response.
AckReload ==
    /\ reload_response # "none"
    /\ reload_response' = "none"
    /\ UNCHANGED <<disk, ENGINE, persona_logic_engine, static_indices,
                   status_seen, reply_seen>>

\* sum(len(s) for s in corpus.values())
RECURSIVE TotalSamples(_, _)
TotalSamples(counts, ps) ==
    IF ps = {} THEN 0
    ELSE LET p == CHOOSE q \in ps : TRUE
         IN  counts[p] + TotalSamples(counts, ps \ {p})

\* GET /reload/status
ReloadStatus ==
    /\ LET counts == persona_logic_engine.corpus.counts
       IN  status_seen' =
             [kind |-> "status",
              personas |-> Cardinality(DOMAIN counts),
              total_samples |-> TotalSamples(counts, DOMAIN counts),
              persona_stats |-> [p \in (DOMAIN counts) \ {"default"} |->
                                    counts[p]]]
    /\ UNCHANGED <<disk, ENGINE, persona_logic_engine, static_indices,
                   reload_response, reply_seen>>

\* POST /persona/logic/reply and POST /hybrid/reply: persona_logic_reply
\* and the enhanced engine's base_engine both answer from ENGINE.
LogicReply ==
    /\ reply_seen' = [kind |-> "reply", models |-> ENGINE.models,
                      indices |-> static_indices]
    /\ UNCHANGED <<disk, ENGINE, persona_logic_engine, static_indices,
                   reload_response, status_seen>>

(***************************************************************************)
(*   ResponseStyleCF (services/response_cf.py)                             *)
(*                                                                         *)
(*   Counters (positive, total) are kept in units of 1/CfScale, which      *)
(*   holds MaxObservations decays by 0.95 = 19/20 of an engagement given   *)
(*   in eighths exactly.  Preference scores and similarities are in        *)
(*   thousandths, vector components in hundredths, truncated.              *)
(***************************************************************************)

\* ---- bounds ----
MaxObservations == 2    \* observations decayed into one counter

\* decay = 0.95
DecayNum == 19
DecayDen == 20

\* prior_strength = 1.0
prior_strength == 1

RECURSIVE Pow(_, _)
Pow(b, k) == IF k = 0 THEN 1 ELSE b * Pow(b, k - 1)

CfScale == 8 * Pow(DecayDen, MaxObservations)

VecScale == 100
PrefScale == 1000

STYLE_DIMENSIONS ==
    [length |-> {"short", "medium", "long"},
     tone |-> {"casual", "formal", "playful", "warm", "enthusiastic"},
     structure |-> {"question", "statement", "exclamation", "mixed"},
     topic |-> {"lore", "humor", "advice", "empathy", "action",
                "observation"}]

\* The (dimension, style) pairs a counter can exist for.
StylePairs ==
    UNION {{<<d, st>> : st \in STYLE_DIMENSIONS[d]} : d \in DOMAIN STYLE_DIMENSIONS}

CfUsers == {"u1", "u2"}

\* min(user_id, other_id), max(user_id, other_id) on the modelled ids.
CacheKey(a, b) == IF a = "u1" \/ (a = b) THEN <<a, b>> ELSE <<b, a>>

\* The (positive, total) a counter starts from.
PriorCounter == [pos |-> prior_strength * CfScale,
                 total |-> prior_strength * 2 * CfScale]

\* The share of an engagement (in 1/Unit) added to positive.
Gain(engagement) ==
    IF 2 * engagement >= Unit THEN (engagement * CfScale) \div Unit
    ELSE (engagement * CfScale) \div (2 * Unit)

\* The pairs of a response_styles dict, taken without the two membership
\* tests.
ValidPairsUnchecked(response_styles) ==
    {<<d, response_styles[d]>> : d \in DOMAIN response_styles}

\* The valid (dimension, style) pairs of a response_styles dict.
ValidPairs(response_styles) ==
    {<<d, response_styles[d]>> : d \in
        {x \in DOMAIN response_styles :
            /\ x \in DOMAIN STYLE_DIMENSIONS
            /\ response_styles[x] \in STYLE_DIMENSIONS[x]}}

\* One counter after an observation.
Observe(counter, engagement) ==
    [pos |-> (counter.pos * DecayNum) \div DecayDen + Gain(engagement),
     total |-> (counter.total * DecayNum) \div DecayDen + CfScale]

\* ResponseStyleCF.update: self.user_prefs afterwards.  A user without
\* counters has the empty table.
cf_update(prefs, user_id, response_styles, engagement) ==
    LET valid == ValidPairs(response_styles)
        table == prefs[user_id]
    IN  [prefs EXCEPT ![user_id] =
            [k \in DOMAIN table \cup valid |->
                IF k \in valid
                THEN Observe(IF k \in DOMAIN table THEN table[k]
                             ELSE PriorCounter, engagement)
                ELSE table[k]]]

\* ResponseStyleCF.update: self.global_prefs afterwards.
cf_update_global(globals, response_styles, engagement) ==
    [k \in DOMAIN globals |->
        IF k \in ValidPairs(response_styles)
        THEN [pos |-> globals[k].pos
                      + (IF 2 * engagement >= Unit
                         THEN (engagement * CfScale) \div (10 * Unit) ELSE 0),
              total |-> globals[k].total + CfScale \div 10]
        ELSE globals[k]]

\* positive / max(1, total), in 1/scale.
Ratio(counter, scale) == (counter.pos * scale) \div Max(CfScale, counter.total)

\* _user_to_vector
user_to_vector(prefs, user_id) ==
    [k \in DOMAIN prefs[user_id] |-> Ratio(prefs[user_id][k], VecScale)]

\* The largest r in lo..hi with r * r <= n.
RECURSIVE SqrtBetween(_, _, _)
SqrtBetween(n, lo, hi) ==
    IF lo >= hi THEN lo
    ELSE LET mid == (lo + hi + 1) \div 2
         IN  IF mid * mid <= n THEN SqrtBetween(n, mid, hi)
             ELSE SqrtBetween(n, lo, mid - 1)

\* math.sqrt, truncated.
ISqrt(n) == SqrtBetween(n, 0, 46340)

RECURSIVE SumOver(_, _)
SumOver(f, S) ==
    IF S = {} THEN 0
    ELSE LET x == CHOOSE y \in S : TRUE
         IN  f[x] + SumOver(f, S \ {x})

\* _compute_similarity: cosine of the two users' vectors, in thousandths.
compute_similarity(prefs, user_a, user_b) ==
    LET vec_a == user_to_vector(prefs, user_a)
        vec_b == user_to_vector(prefs, user_b)
        both == DOMAIN vec_a \cap DOMAIN vec_b
        dot == SumOver([k \in both |-> vec_a[k] * vec_b[k]], both)
        sq_a == SumOver([k \in DOMAIN vec_a |-> vec_a[k] * vec_a[k]], DOMAIN vec_a)
        sq_b == SumOver([k \in DOMAIN vec_b |-> vec_b[k] * vec_b[k]], DOMAIN vec_b)
    IN  IF DOMAIN vec_a = {} \/ DOMAIN vec_b = {} THEN 0
        ELSE IF sq_a = 0 \/ sq_b = 0 THEN 0
        ELSE (dot * PrefScale) \div (ISqrt(sq_a) * ISqrt(sq_b))

\* list(self.user_prefs.keys()): the users that have counters.
KnownUsers(prefs) == {u \in DOMAIN prefs : DOMAIN prefs[u] # {}}

\* _rebuild_similarity_cache: the cache afterwards.
rebuild_similarity_cache(prefs) ==
    [key \in {CacheKey(a, b) : a, b \in KnownUsers(prefs)} \
             {<<u, u>> : u \in KnownUsers(prefs)} |->
        compute_similarity(prefs, key[1], key[2])]

\* _get_similar_users on a given cache: the (other user, similarity) pairs
\* above the threshold 0.1; with at most n = 5 other users none is cut off.
similar_from(prefs, cache, user_id) ==
    {<<other, cache[CacheKey(user_id, other)]>> : other \in
        {o \in KnownUsers(prefs) \ {user_id} :
            /\ CacheKey(user_id, o) \in DOMAIN cache
            /\ 10 * cache[CacheKey(user_id, o)] > PrefScale}}

\* _get_similar_users that never rebuilds the cache.
get_similar_users_stale(prefs, cache, dirty, user_id) ==
    [cache |-> cache, dirty |-> dirty,
     similar |-> similar_from(prefs, cache, user_id)]

\* _get_similar_users: the cache, the flag and the result afterwards.
get_similar_users(prefs, cache, dirty, user_id) ==
    LET fresh == IF dirty THEN rebuild_similarity_cache(prefs) ELSE cache
    IN  [cache |-> fresh, dirty |-> FALSE,
         similar |-> similar_from(prefs, fresh, user_id)]

\* _get_user_style_score, in thousandths.
get_user_style_score(prefs, globals, user_id, pair) ==
    IF user_id \in DOMAIN prefs /\ pair \in DOMAIN prefs[user_id]
    THEN Ratio(prefs[user_id][pair], PrefScale)
    ELSE IF pair \in DOMAIN globals THEN Ratio(globals[pair], PrefScale)
    ELSE PrefScale \div 2

\* _compute_preference with the similar users found, in thousandths.
compute_preference(prefs, globals, user_id, pair, similar) ==
    LET own == get_user_style_score(prefs, globals, user_id, pair)
        weighted == [s \in similar |->
            get_user_style_score(prefs, globals, s[1], pair) * (s[2] \div 2)]
        weights == [s \in similar |-> s[2] \div 2]
    IN  IF similar = {} THEN own
        ELSE (own * PrefScale + SumOver(weighted, similar))
             \div (PrefScale + SumOver(weights, similar))

\* The keywords of classify_response_style's lists that occur in a word.
StyleWordsIn(w) == IF w = "wow!" THEN {"wow"} ELSE {}

\* response.endswith('!'), '!' in response ('?' is in no modelled word).
EndsWithBang(text) == text # <<>> /\ text[Len(text)].w = "wow!"
HasBang(text) == \E i \in 1..Len(text) : text[i].w = "wow!"

\* ResponseStyleCF.classify_response_style
classify_response_style(text) ==
    LET has(ws) == \E i \in 1..Len(text) : StyleWordsIn(text[i].w) \cap ws # {}
    IN  [length |-> IF WordCount(text) < 10 THEN "short"
                    ELSE IF WordCount(text) < 30 THEN "medium" ELSE "long",
         structure |-> IF EndsWithBang(text) THEN "exclamation"
                       ELSE IF HasBang(text) THEN "mixed" ELSE "statement",
         tone |-> IF has({"haha", "lol", "hehe", "funny", "joke"}) THEN "playful"
                  ELSE IF has({"love", "care", "heart", "sweet", "dear"})
                       THEN "warm"
                  ELSE IF has({"wow", "amazing", "awesome", "excited"})
                       THEN "enthusiastic"
                  ELSE IF has({"please", "kindly", "regarding", "therefore"})
                       THEN "formal"
                  ELSE "casual",
         topic |-> IF has({"story", "legend", "ancient", "history", "realm"})
                       THEN "lore"
                   ELSE IF has({"haha", "joke", "funny", "laugh"}) THEN "humor"
                   ELSE IF has({"should", "try", "suggest", "recommend",
                                "advice"}) THEN "advice"
                   ELSE IF has({"feel", "understand", "sorry", "hope", "wish"})
                       THEN "empathy"
                   ELSE IF has({"do", "go", "make", "create", "build"})
                       THEN "action"
                   ELSE "observation"]

\* Number of observations decayed into a counter with this total.
RECURSIVE TotalAfter(_)
TotalAfter(k) ==
    IF k = 0 THEN PriorCounter.total
    ELSE (TotalAfter(k - 1) * DecayNum) \div DecayDen + CfScale

Observations(counter) ==
    CHOOSE k \in 0..(MaxObservations + 1) : TotalAfter(k) = counter.total

\* The counters stay within what CfScale represents exactly.
WithinScale(prefs) ==
    \A u \in DOMAIN prefs : \A k \in DOMAIN prefs[u] :
        \E n \in 0..MaxObservations : TotalAfter(n) = prefs[u][k].total

\* response_styles arguments of update: one valid pair, a second valid pair
\* next to an unknown style, and an unknown dimension next to a valid pair.
StyleMaps ==
    { [length |-> "short"],
      [tone |-> "warm", length |-> "huge"],
      [mood |-> "calm", length |-> "short"],
      [mood |-> "calm"] }

\* engagement arguments: 0.25 and 0.5.
Engagements == {1, Unit \div 2}

NoRead == [kind |-> "none"]

NoPrefs == [u \in CfUsers |-> <<>>]

\* ResponseStyleCF()
CfInit ==
    /\ user_prefs = NoPrefs
    /\ global_prefs = [k \in StylePairs |-> PriorCounter]
    /\ similarity_cache = <<>>
    /\ cache_dirty = TRUE
    /\ cf_read = NoRead

\* Observations held by all counters of the table.
RECURSIVE CountObservations(_, _)
CountObservations(prefs, users) ==
    IF users = {} THEN 0
    ELSE LET u == CHOOSE x \in users : TRUE
         IN  SumOver([k \in DOMAIN prefs[u] |-> Observations(prefs[u][k])],
                     DOMAIN prefs[u])
             + CountObservations(prefs, users \ {u})

\* cf.update(user_id, response_styles, engagement)
CfUpdate ==
    /\ cf_read = NoRead
    /\ \E user_id \in CfUsers, response_styles \in StyleMaps,
          engagement \in Engagements :
        LET after == cf_update(user_prefs, user_id, response_styles, engagement)
        IN  /\ WithinScale(after)
            /\ CountObservations(after, CfUsers) <= MaxObservations
            /\ user_prefs' = after
            /\ global_prefs' = cf_update_global(global_prefs, response_styles,
                                                engagement)
            /\ cache_dirty' = TRUE
            /\ UNCHANGED <<similarity_cache, cf_read>>

\* cf.get_user_preferences(user_id, use_similar_users)
CfGetUserPreferences ==
    /\ cf_read = NoRead
    /\ \E user_id \in CfUsers, use_similar \in BOOLEAN :
        LET got == get_similar_users(user_prefs, similarity_cache, cache_dirty,
                                     user_id)
        IN  /\ similarity_cache' = IF use_similar THEN got.cache
                                   ELSE similarity_cache
            /\ cache_dirty' = IF use_similar THEN got.dirty ELSE cache_dirty
            /\ cf_read' = [kind |-> "read", user_id |-> user_id,
                           use_similar |-> use_similar,
                           similar |-> IF use_similar THEN got.similar ELSE {}]
    /\ UNCHANGED <<user_prefs, global_prefs>>

\* The caller is done with the preferences returned.
CfReadReturns ==
    /\ cf_read # NoRead
    /\ cf_read' = NoRead
    /\ UNCHANGED <<user_prefs, global_prefs, similarity_cache, cache_dirty>>

(***************************************************************************)
(*   EnhancedPersonaLogicEngine: reply and record_feedback                 *)
(*   (services/enhanced_persona_logic.py)                                  *)
(***************************************************************************)

\* user_id of a reply request and of a feedback call ("" for None).
ReplyUsers == {"", "u1"}

FeedbackUsers == {"", "u2"}

\* strategy argument of record_feedback ("" for None).
FeedbackStrategies == {"", "tfidf_markov", "unknown"}

\* reward argument of record_feedback: 0.25 and 0.5.
FeedbackRewards == {1, Unit \div 2}

NoSelection == [kind |-> "none"]

NoCall == [kind |-> "none"]

\* How reply() ends for a request of the user: no candidate at all
\* ('fallback_base', nothing tracked), or the candidate the cascade router
\* returned, which comes from a strategy or is the router's own fallback;
\* its metadata carries a style only after CF personalization.
ReplyOutcomes(user) ==
    {[kind |-> "fallback_base", source |-> "", text |-> <<>>, styled |-> FALSE]}
    \cup
    {[kind |-> "selected", source |-> s,
      text |-> Words(<<"hello", "space">>), styled |-> b] :
        s \in ArmIds \cup {"fallback"},
        b \in {c \in BOOLEAN : c => user # ""}}

\* EnhancedPersonaLogicEngine.__init__
FeedbackInit ==
    /\ engine_last_selection = NoSelection
    /\ feedback_call = NoCall

\* engine.reply(persona, message, history, user_id)
HybridReply ==
    /\ \E user \in ReplyUsers : \E out \in ReplyOutcomes(user) :
          engine_last_selection' =
              IF out.kind = "selected"
              THEN [kind |-> "selection", strategy |-> out.source,
                    user_id |-> user, response_text |-> out.text,
                    style |-> IF out.styled
                              THEN classify_response_style(out.text)
                              ELSE <<>>]
              ELSE engine_last_selection
    /\ UNCHANGED <<feedback_call, banditVars, cfVars>>

\* EnhancedPersonaLogicEngine.record_feedback: the arms table and the CF
\* state after the call.
record_feedback(sel, table, prefs, globals, dirty, reward, strategy, user_id) ==
    LET uid == IF user_id # "" THEN user_id
               ELSE IF sel # NoSelection THEN sel.user_id ELSE ""
        style == IF sel = NoSelection THEN <<>>
                 ELSE IF sel.style # <<>> THEN sel.style
                 ELSE IF sel.response_text # <<>>
                      THEN classify_response_style(sel.response_text)
                 ELSE <<>>
        cf == uid # "" /\ sel # NoSelection /\ style # <<>>
    IN  [arms |-> IF strategy # "" THEN update(table, strategy, reward)
                  ELSE IF sel # NoSelection
                       THEN update(table, sel.strategy, reward)
                       ELSE table,
         user_prefs |-> IF cf THEN cf_update(prefs, uid, style, reward)
                        ELSE prefs,
         global_prefs |-> IF cf THEN cf_update_global(globals, style, reward)
                          ELSE globals,
         cache_dirty |-> cf \/ dirty]

\* engine.record_feedback(reward, strategy, user_id)
RecordFeedback ==
    /\ feedback_call = NoCall
    /\ \E reward \in FeedbackRewards, strategy \in FeedbackStrategies,
          user_id \in FeedbackUsers :
        LET after == record_feedback(engine_last_selection, arms, user_prefs,
                                     global_prefs, cache_dirty,
                                     reward, strategy, user_id)
        IN  /\ WithinCap(after.arms)
            /\ WithinScale(after.user_prefs)
            /\ arms' = after.arms
            /\ user_prefs' = after.user_prefs
            /\ global_prefs' = after.global_prefs
            /\ cache_dirty' = after.cache_dirty
            /\ feedback_call' = [kind |-> "call", reward |-> reward,
                                 strategy |-> strategy, user_id |-> user_id]
    /\ UNCHANGED <<engine_last_selection, arm_names, selection_count,
                   last_selection, checkpoint, similarity_cache, cf_read>>

\* record_feedback has returned to its caller.
FeedbackReturns ==
    /\ feedback_call # NoCall
    /\ feedback_call' = NoCall
    /\ UNCHANGED <<engine_last_selection, banditVars, cfVars>>

(***************************************************************************)
(*   DialogueHMM and DialogueHMMManager (services/hmm_dialogue.py)         *)
(***************************************************************************)

\* ---- bounds ----
MaxTurns == 1           \* turns a tracker appends to one history

\* DialogueHMMManager.max_inactive_hmms
max_inactive_hmms == 100

\* DialogueHMM.max_history
max_history == 10

MOOD_STATES == <<"neutral", "curious", "warm", "playful", "concerned",
                 "excited">>

TOPIC_STATES == <<"greeting", "personal", "advice", "lore", "feelings",
                  "general">>

\* The name of the i-th persona nobody configured.
Guest(i) == "guest" \o ToString(i)

\* persona arguments of the manager's operations; the requests that carry
\* a message are addressed to the configured persona.
HmmPersonas == {"Elio", Guest(max_inactive_hmms)}

UpdatedPersonas == {"Elio"}

\* user_message arguments: a message with the keywords 'wow', '!' (excited)
\* and 'space' (lore).
HmmMessages == { Words(<<"wow!", "space">>) }

\* history arguments: None, [], one turn, twelve turns.
HistoryTurn == [role |-> "user", content |-> Words(<<"hello">>)]

HistoryArgs ==
    { [given |-> FALSE, turns |-> <<>>],
      [given |-> TRUE, turns |-> <<>>],
      [given |-> TRUE, turns |-> <<HistoryTurn>>],
      [given |-> TRUE, turns |-> [i \in 1..(max_history + 2) |-> HistoryTurn]] }

\* _init_mood_transitions before normalisation, in hundredths; dividing a
\* row by its sum keeps every entry positive.
MoodBase ==
    [neutral |-> [neutral |-> 15, curious |-> 25, warm |-> 25, playful |-> 15,
                  concerned |-> 10, excited |-> 10],
     curious |-> [neutral |-> 10, curious |-> 35, warm |-> 20, playful |-> 15,
                  concerned |-> 10, excited |-> 10],
     warm |-> [neutral |-> 10, curious |-> 20, warm |-> 35, playful |-> 15,
               concerned |-> 10, excited |-> 10],
     playful |-> [neutral |-> 10, curious |-> 15, warm |-> 20, playful |-> 35,
                  concerned |-> 5, excited |-> 15],
     concerned |-> [neutral |-> 15, curious |-> 10, warm |-> 30, playful |-> 5,
                    concerned |-> 30, excited |-> 10],
     excited |-> [neutral |-> 10, curious |-> 20, warm |-> 20, playful |-> 20,
                  concerned |-> 5, excited |-> 25]]

init_mood_transitions(persona) ==
    IF LowerName(persona) = "elio" THEN
        [MoodBase EXCEPT !.neutral.curious = @ + 10, !.neutral.excited = @ + 5,
                         !.curious.excited = @ + 10, !.warm.curious = @ + 5]
    ELSE IF LowerName(persona) = "glordon" THEN
        [MoodBase EXCEPT !.neutral.playful = @ + 10, !.playful.playful = @ + 10,
                         !.curious.playful = @ + 10]
    ELSE IF LowerName(persona) = "olga" THEN
        [MoodBase EXCEPT !.neutral.neutral = @ + 10, !.warm.neutral = @ + 10,
                         !.playful.neutral = @ + 10]
    ELSE MoodBase

\* _init_topic_transitions, in hundredths.
init_topic_transitions ==
    [greeting |-> [greeting |-> 10, personal |-> 25, advice |-> 15, lore |-> 20,
                   feelings |-> 15, general |-> 15],
     personal |-> [greeting |-> 5, personal |-> 35, advice |-> 20, lore |-> 10,
                   feelings |-> 20, general |-> 10],
     advice |-> [greeting |-> 5, personal |-> 20, advice |-> 35, lore |-> 10,
                 feelings |-> 15, general |-> 15],
     lore |-> [greeting |-> 5, personal |-> 10, advice |-> 10, lore |-> 40,
               feelings |-> 10, general |-> 25],
     feelings |-> [greeting |-> 5, personal |-> 30, advice |-> 20, lore |-> 5,
                   feelings |-> 30, general |-> 10],
     general |-> [greeting |-> 10, personal |-> 20, advice |-> 15, lore |-> 15,
                  feelings |-> 15, general |-> 25]]

\* _init_mood_keywords; the two emoji of 'playful' occur in no modelled
\* message and are left out.
init_mood_keywords ==
    [curious |-> {"what", "how", "why", "when", "where", "who", "wonder",
                  "curious", "?", "explain", "tell me"},
     warm |-> {"thank", "appreciate", "love", "glad", "happy", "nice", "kind",
               "friend", "care", "miss"},
     playful |-> {"lol", "haha", "funny", "joke", "play", "game", "fun",
                  "kidding"},
     concerned |-> {"worried", "problem", "issue", "help", "wrong", "sad",
                    "afraid", "scared", "anxious", "stress"},
     excited |-> {"wow", "amazing", "awesome", "cool", "incredible", "!", "omg",
                  "exciting", "love", "best"}]

\* _init_topic_keywords
init_topic_keywords ==
    [greeting |-> {"hi", "hello", "hey", "morning", "evening", "night",
                   "what's up", "sup", "greetings"},
     personal |-> {"you", "your", "yourself", "life", "day", "doing", "been",
                   "family", "work"},
     advice |-> {"should", "advice", "help", "what do", "recommend", "suggest",
                 "think", "opinion"},
     lore |-> {"communiverse", "space", "alien", "elio", "glordon", "olga",
               "story", "world", "universe"},
     feelings |-> {"feel", "emotion", "sad", "happy", "angry", "love", "hate",
                   "like", "dislike", "mood"},
     general |-> {}]

\* Number of keywords of the list that occur in the lower-cased message.
KeywordHits(keywords, message) ==
    Cardinality({kw \in keywords : KwIn(kw, message)})

\* _compute_mood_likelihoods before normalisation, in tenths.
compute_mood_likelihoods(message) ==
    [i \in 1..Len(MOOD_STATES) |->
        IF MOOD_STATES[i] \in DOMAIN init_mood_keywords
        THEN 1 + 2 * KeywordHits(init_mood_keywords[MOOD_STATES[i]], message)
        ELSE 1]

\* _compute_topic_likelihoods before normalisation, in tenths.
compute_topic_likelihoods(message) ==
    LET raw == [i \in 1..Len(TOPIC_STATES) |->
                   1 + 2 * KeywordHits(init_topic_keywords[TOPIC_STATES[i]],
                                       message)]
    IN  [i \in 1..Len(TOPIC_STATES) |->
            IF TOPIC_STATES[i] = "general" /\ \A j \in 1..Len(raw) : raw[j] < 2
            THEN raw[i] + 3 ELSE raw[i]]

RECURSIVE SumSeq(_)
SumSeq(s) == IF s = <<>> THEN 0 ELSE Head(s) + SumSeq(Tail(s))

\* _sample_next_state: the states random.random() can select.  A state is
\* drawn when its share of the combined mass is positive; the loop falls
\* through to `current` when rounding leaves the cumulative sum below r.
sample_next_state(current, states, transitions, likelihoods) ==
    LET trans_probs == IF current \in DOMAIN transitions
                       THEN transitions[current] ELSE <<>>
        combined == [i \in 1..Len(states) |->
                        (IF states[i] \in DOMAIN trans_probs
                         THEN trans_probs[states[i]] ELSE 10) * likelihoods[i]]
    IN  IF SumSeq(combined) <= 0 THEN {current}
        ELSE {states[i] : i \in {j \in 1..Len(states) : combined[j] > 0}}
             \cup {current}

\* DialogueHMM(persona_name)
NewHMM(persona) ==
    [key |-> LowerName(persona), persona |-> persona,
     current_mood |-> "neutral", current_topic |-> "greeting",
     history |-> <<>>]

\* DialogueHMM.update_state: the trackers the call can leave behind.
update_state(hmm, user_message, history) ==
    LET kept == IF history.given /\ history.turns # <<>>
                THEN LastN(history.turns, max_history) ELSE hmm.history
    IN  { [hmm EXCEPT !.current_mood = m, !.current_topic = t,
                      !.history = Append(kept, [message |-> user_message,
                                                mood |-> m, topic |-> t])] :
            m \in sample_next_state(hmm.current_mood, MOOD_STATES,
                                    init_mood_transitions(hmm.persona),
                                    compute_mood_likelihoods(user_message)),
            t \in sample_next_state(hmm.current_topic, TOPIC_STATES,
                                    init_topic_transitions,
                                    compute_topic_likelihoods(user_message)) }

\* DialogueHMM.reset with a misspelt topic.
hmm_reset_misspelt(hmm) ==
    [hmm EXCEPT !.current_mood = "neutral", !.current_topic = "greetings",
                !.history = <<>>]

\* DialogueHMM.reset
hmm_reset(hmm) ==
    [hmm EXCEPT !.current_mood = "neutral", !.current_topic = "greeting",
                !.history = <<>>]

\* The keys of the manager's dict, in insertion order.
HmmKeys(table) == [i \in 1..Len(table) |-> table[i].key]

\* self.hmms[key]
HmmAt(table, key) == table[CHOOSE i \in 1..Len(table) : table[i].key = key]

\* _cleanup_oldest: the first half of the dict is deleted.
cleanup_oldest(table) ==
    SubSeq(table, (Len(table) \div 2) + 1, Len(table))

\* get_hmm: the dict after the lookup.
get_hmm(table, persona) ==
    IF LowerName(persona) \in Range(HmmKeys(table)) THEN table
    ELSE LET added == Append(table, NewHMM(persona))
         IN  IF Len(added) > max_inactive_hmms THEN cleanup_oldest(added)
             ELSE added

\* The dict with the tracker of the key replaced.
HmmPut(table, hmm) ==
    [i \in 1..Len(table) |-> IF table[i].key = hmm.key THEN hmm ELSE table[i]]

\* The turns of a history that update_state appended.
TrackedTurns(history) ==
    Cardinality({i \in 1..Len(history) : "mood" \in DOMAIN history[i]})

NoHmmCall == [op |-> "none", persona |-> ""]

\* DialogueHMMManager()
HmmInit ==
    /\ hmms = <<>>
    /\ hmm_call = NoHmmCall

\* A manager that served get_state for max_inactive_hmms personas.
HmmCrowdedInit ==
    /\ hmms = <<NewHMM("Elio")>>
              \o [i \in 1..(max_inactive_hmms - 1) |-> NewHMM(Guest(i))]
    /\ hmm_call = NoHmmCall

\* manager.update(persona, user_message, history)
HmmUpdate ==
    \E persona \in UpdatedPersonas, message \in HmmMessages,
       history \in HistoryArgs :
        LET table == get_hmm(hmms, persona)
        IN  \E hmm \in update_state(HmmAt(table, LowerName(persona)),
                                    message, history) :
                /\ TrackedTurns(hmm.history) <= MaxTurns
                /\ hmms' = HmmPut(table, hmm)
                /\ hmm_call' = [op |-> "update", persona |-> persona]

\* manager.get_state(persona)
HmmGetState ==
    \E persona \in HmmPersonas :
        /\ hmms' = get_hmm(hmms, persona)
        /\ hmm_call' = [op |-> "get_state", persona |-> persona]

\* manager.reset(persona)
HmmReset ==
    \E persona \in HmmPersonas :
        /\ hmms' = IF LowerName(persona) \in Range(HmmKeys(hmms))
                   THEN HmmPut(hmms, hmm_reset(HmmAt(hmms, LowerName(persona))))
                   ELSE hmms
        /\ hmm_call' = [op |-> "reset", persona |-> persona]

(***************************************************************************)
(*   Trie (services/trie.py)                                               *)
(*                                                                         *)
(*   A word is the sequence of its characters.  The tree of TrieNode       *)
(*   objects is the function from the path of a node (the characters on    *)
(*   the way from the root) to the node's fields; the children of a node   *)
(*   are the paths one character longer.                                   *)
(***************************************************************************)

\* ---- bound ----
MaxCount == 2           \* insertions counted in one node

\* words handed to insert, search and delete
TrieWords == { <<>>, <<"a">>, <<"a", "b">>, <<"a", "c">>, <<"A">> }

\* payload handed to insert (a persona name)
TrieData == {"Elio"}

\* str.lower() of one character
lower_char(c) == IF c = "A" THEN "a" ELSE c

\* Trie._normalize
normalize(t, word) ==
    IF t.case_sensitive THEN word
    ELSE [i \in 1..Len(word) |-> lower_char(word[i])]

\* TrieNode()
TrieNode == [is_end |-> FALSE, data |-> "None", count |-> 0]

\* Trie(case_sensitive)
NewTrie(case_sensitive) ==
    [nodes |-> (<<>> :> TrieNode), case_sensitive |-> case_sensitive,
     word_count |-> 0]

IsPrefix(p, w) == Len(p) <= Len(w) /\ SubSeq(w, 1, Len(p)) = p

\* node.children of the node at path
Children(nodes, path) ==
    {p \in DOMAIN nodes : Len(p) = Len(path) + 1 /\ IsPrefix(path, p)}

\* Trie._find_node: the paths of the node found, none for None
find_node(t, prefix) == {normalize(t, prefix)} \cap DOMAIN t.nodes

\* Trie.search
search(t, word) == \E node \in find_node(t, word) : t.nodes[node].is_end

\* Trie.insert
insert(t, word, data) ==
    LET w == normalize(t, word)
        walked == [p \in DOMAIN t.nodes \cup
                         {SubSeq(w, 1, k) : k \in 0..Len(w)} |->
                     IF p \in DOMAIN t.nodes THEN t.nodes[p] ELSE TrieNode]
        node == walked[w]
    IN  [t EXCEPT
           !.word_count = IF node.is_end THEN @ ELSE @ + 1,
           !.nodes = [walked EXCEPT
                        ![w] = [is_end |-> TRUE, data |-> data,
                                count |-> node.count + 1]]]

\* del node.children[char]: the child at path goes with all below it
DelChild(nodes, path) ==
    [p \in {q \in DOMAIN nodes : ~IsPrefix(path, q)} |-> nodes[p]]

\* _delete of a variant that forgets the `and not node.is_end`
RECURSIVE delete_walk_through_words(_, _, _)
delete_walk_through_words(nodes, word, depth) ==
    LET here == SubSeq(word, 1, depth)
        child == SubSeq(word, 1, depth + 1)
    IN  IF depth = Len(word)
        THEN IF ~nodes[here].is_end
             THEN [nodes |-> nodes, should_delete |-> FALSE]
             ELSE [nodes |-> [nodes EXCEPT ![here] = TrieNode],
                   should_delete |-> Children(nodes, here) = {}]
        ELSE IF child \notin DOMAIN nodes
        THEN [nodes |-> nodes, should_delete |-> FALSE]
        ELSE LET sub == delete_walk_through_words(nodes, word, depth + 1)
                 cut == DelChild(sub.nodes, child)
             IN  IF sub.should_delete
                 THEN [nodes |-> cut,
                       should_delete |-> Children(cut, here) = {}]
                 ELSE [nodes |-> sub.nodes, should_delete |-> FALSE]

\* the nested _delete(node, depth) of Trie.delete
RECURSIVE delete_walk(_, _, _)
delete_walk(nodes, word, depth) ==
    LET here == SubSeq(word, 1, depth)
        child == SubSeq(word, 1, depth + 1)
    IN  IF depth = Len(word)
        THEN IF ~nodes[here].is_end
             THEN [nodes |-> nodes, should_delete |-> FALSE]
             ELSE [nodes |-> [nodes EXCEPT ![here] = TrieNode],
                   should_delete |-> Children(nodes, here) = {}]
        ELSE IF child \notin DOMAIN nodes
        THEN [nodes |-> nodes, should_delete |-> FALSE]
        ELSE LET sub == delete_walk(nodes, word, depth + 1)
                 cut == DelChild(sub.nodes, child)
             IN  IF sub.should_delete
                 THEN [nodes |-> cut,
                       should_delete |-> Children(cut, here) = {}
                                         /\ ~cut[here].is_end]
                 ELSE [nodes |-> sub.nodes, should_delete |-> FALSE]

\* Trie.delete
delete(t, word) ==
    LET w == normalize(t, word)
        walk == delete_walk(t.nodes, w, 0)
        after == [t EXCEPT !.nodes = walk.nodes]
    IN  IF walk.should_delete \/ ~search(after, w)
        THEN [after EXCEPT !.word_count = Max(0, @ - 1)]
        ELSE after

NoTrieCall == [op |-> "none", word |-> <<>>]

TrieInit ==
    /\ trie \in {NewTrie(cs) : cs \in BOOLEAN}
    /\ trie_call = NoTrieCall

DefaultTrieInit ==
    /\ trie = NewTrie(FALSE)
    /\ trie_call = NoTrieCall

\* trie.insert(word, data)
TrieInsert ==
    \E word \in TrieWords, data \in TrieData :
        LET after == insert(trie, word, data)
        IN  /\ after.nodes[normalize(trie, word)].count <= MaxCount
            /\ trie' = after
            /\ trie_call' = [op |-> "insert", word |-> word]

\* trie.delete(word)
TrieDelete ==
    \E word \in TrieWords :
        /\ trie' = delete(trie, word)
        /\ trie_call' = [op |-> "delete", word |-> word]

\* trie.search(word)
TrieSearch ==
    \E word \in TrieWords :
        /\ trie_call' = [op |-> "search", word |-> word,
                         found |-> search(trie, word)]
        /\ UNCHANGED trie

(***************************************************************************)
(*   Requests on the shared bandit (api/routers/hybrid_router.py)          *)
(*                                                                         *)
(*   Every handler that touches the bandit is a coroutine of the one       *)
(*   event loop uvicorn runs.  A request is followed through the reads     *)
(*   and writes its handler makes on self.arms: `x += r` is a read of x    *)
(*   followed by a write, get_weight reads alpha and then beta.            *)
(***************************************************************************)

\* ---- bound ----
MaxRequests == 3        \* requests in flight on the bandit

RequestIds == 1..MaxRequests

\* POST /hybrid/bandit/update with (arm, reward) and a weight read as
\* GET /hybrid/strategies makes it
RequestArgs ==
    { [kind |-> "update", arm |-> "tfidf_markov", reward |-> Unit],
      [kind |-> "update", arm |-> "tfidf_markov", reward |-> 1],
      [kind |-> "update", arm |-> "unknown", reward |-> Unit],
      [kind |-> "weight", arm |-> "tfidf_markov", reward |-> 0] }

NoRequest ==
    [pc |-> "idle", kind |-> "", arm |-> "", reward |-> 0, loaded |-> 0,
     alpha |-> 0, beta |-> 0]

\* the parameter `update` adds to, and how much
UpdatedField(reward) == IF 2 * Clamp(reward) >= Unit THEN "alpha" ELSE "beta"
Amount(reward) ==
    IF 2 * Clamp(reward) >= Unit THEN Clamp(reward) ELSE Unit - Clamp(reward)

\* a handler between its first access to the bandit and its return
Running(req) == req.pc \in {"loaded", "stored", "alpha_read"}

\* scheduling by preemptive threads: any request may take the next step
may_run_preemptive(reqs, t) == TRUE

\* scheduling by the event loop: a coroutine that never awaits is run to
\* its return before the loop starts another one
may_run(reqs, t) == \A o \in DOMAIN reqs : o # t => ~Running(reqs[o])

LoopInit == requests = [t \in RequestIds |-> NoRequest]

\* a request arrives while others may still be waiting
Accept ==
    \E t \in RequestIds, args \in RequestArgs :
        /\ requests[t].pc = "idle"
        /\ requests' = [requests EXCEPT ![t] =
              [NoRequest EXCEPT !.pc = "accepted", !.kind = args.kind,
                                !.arm = args.arm, !.reward = args.reward]]
        /\ UNCHANGED arms

\* bandit.update: `if arm not in self.arms: return`, else the read of +=
Load ==
    \E t \in RequestIds :
        LET req == requests[t]
        IN  /\ req.pc = "accepted" /\ req.kind = "update"
            /\ may_run(requests, t)
            /\ requests' = [requests EXCEPT ![t] =
                  IF req.arm \notin DOMAIN arms
                  THEN [req EXCEPT !.pc = "stored"]
                  ELSE [req EXCEPT !.pc = "loaded",
                         !.loaded = arms[req.arm][UpdatedField(req.reward)]]]
            /\ UNCHANGED arms

\* bandit.update: the write of +=
Store ==
    \E t \in RequestIds :
        LET req == requests[t]
        IN  /\ req.pc = "loaded"
            /\ may_run(requests, t)
            /\ arms' = [arms EXCEPT ![req.arm][UpdatedField(req.reward)] =
                          req.loaded + Amount(req.reward)]
            /\ requests' = [requests EXCEPT ![t].pc = "stored"]

\* bandit.get_weight: 0.5 for an unknown arm, else alpha = params['alpha']
ReadAlpha ==
    \E t \in RequestIds :
        LET req == requests[t]
        IN  /\ \/ req.pc = "stored"
               \/ req.pc = "accepted" /\ req.kind = "weight"
            /\ may_run(requests, t)
            /\ requests' = [requests EXCEPT ![t] =
                  IF req.arm \notin DOMAIN arms
                  THEN [req EXCEPT !.pc = "done"]
                  ELSE [req EXCEPT !.pc = "alpha_read",
                                   !.alpha = arms[req.arm].alpha]]
            /\ UNCHANGED arms

\* bandit.get_weight: beta = params['beta']; return alpha / (alpha + beta)
ReadBeta ==
    \E t \in RequestIds :
        LET req == requests[t]
        IN  /\ req.pc = "alpha_read"
            /\ may_run(requests, t)
            /\ requests' = [requests EXCEPT ![t] =
                  [req EXCEPT !.pc = "done", !.beta = arms[req.arm].beta]]
            /\ UNCHANGED arms

(***************************************************************************)
(*   EnhancedPersonaLogicEngine.reply, step by step                        *)
(*   (services/enhanced_persona_logic.py, services/response_cf.py)         *)
(***************************************************************************)

\* the labels IntentClassifier can return: the keys of INTENT_PATTERNS and
\* "general"
INTENT_LABELS ==
    {"greeting", "question", "advice", "feelings", "lore", "personal",
     "action", "general"}

\* the mood label and the confidences (0.5 and 0.9) taken for the
\* classifiers' answers
MoodLabels == {"concerned"}
ClassifierConfidences == {ConfScale \div 2, (9 * ConfScale) \div 10}

\* _classify_message: (intent, mood, intent_confidence, mood_confidence)
ClassifyOutcomes ==
    [intent : INTENT_LABELS, mood : MoodLabels,
     intent_conf : ClassifierConfidences, mood_conf : ClassifierConfidences]

\* what a registered strategy does in a reply
ReplyGeneratorOutcomes ==
    { [kind |-> "raise", text |-> <<>>, confidence |-> <<>>],
      [kind |-> "dict", text |-> Words(<<"hello">>), confidence |-> <<>>],
      [kind |-> "dict", text |-> Words(<<"hello", "space">>),
       confidence |-> <<9000>>] }

\* PersonaLogicEngine.reply: the dicts of its three returns
BaseReplies ==
    { [text |-> Words(<<"Elio:", "I'm", "here">>), persona |-> "Elio",
       strategy |-> "fallback", mood |-> "neutral"],
      [text |-> Words(<<"Thanks", "for", "reaching", "out.">>),
       persona |-> "Elio", strategy |-> "no_corpus", mood |-> "neutral"],
      [text |-> Words(<<"hello", "space">>), persona |-> "Elio",
       strategy |-> "tfidf_retrieval", mood |-> "warm",
       source |-> [similarity |-> 9000]] }

\* cf.get_user_preferences(user_id)[dim][style] of the styles of a text,
\* averaged: the cf_score of personalize_response, in units of 1/ConfScale
cf_score_of(prefs, globals, similar, user_id, text) ==
    LET styles == classify_response_style(text)
        pref == [dim \in DOMAIN styles |->
                    compute_preference(prefs, globals, user_id,
                                       <<dim, styles[dim]>>, similar)]
    IN  ((SumOver(pref, DOMAIN styles) \div Cardinality(DOMAIN styles))
            * ConfScale) \div PrefScale

\* list.sort(key=score, reverse=True): stable, highest score first
RECURSIVE InsertByScore(_, _)
InsertByScore(sorted, d) ==
    IF sorted = <<>> THEN <<d>>
    ELSE IF Head(sorted).score >= d.score
         THEN <<Head(sorted)>> \o InsertByScore(Tail(sorted), d)
         ELSE <<d>> \o sorted

RECURSIVE SortByScore(_)
SortByScore(dicts) ==
    IF dicts = <<>> THEN <<>>
    ELSE InsertByScore(SortByScore(SubSeq(dicts, 1, Len(dicts) - 1)),
                       dicts[Len(dicts)])

\* personalize_response(user_id, candidates, weight = 0.25)
personalize_response(prefs, globals, similar, user_id, dicts) ==
    SortByScore([i \in 1..Len(dicts) |->
        LET cf == cf_score_of(prefs, globals, similar, user_id, dicts[i].text)
        IN  [dicts[i] EXCEPT !.cf_score = cf,
                             !.score = (3 * dicts[i].score + cf) \div 4]])

\* reply, lines 626-645: the Candidate objects built from the re-ranked
\* dicts; weight is not passed and takes the dataclass default 1.0
Personalized(prefs, globals, similar, user_id, cands) ==
    LET dicts == [i \in 1..Len(cands) |->
                    [text |-> cands[i].text, score |-> cands[i].confidence,
                     source |-> cands[i].source, cf_score |-> ConfScale]]
        ranked == personalize_response(prefs, globals, similar, user_id, dicts)
    IN  [i \in 1..Len(ranked) |->
            [Candidate(ranked[i].text, ranked[i].source, ranked[i].score)
                EXCEPT !.cf_score = ranked[i].cf_score]]

NoReplyCall == [kind |-> "none"]

ReplyInit == reply_call = NoReplyCall

\* engine.reply(persona, message, history, user_id) for persona Elio
EngineReply ==
    /\ reply_call = NoReplyCall
    /\ \E user_id \in ReplyUsers, message \in HmmMessages,
          ml \in ClassifyOutcomes,
          outcomes \in [1..Len(strategies) -> ReplyGeneratorOutcomes] :
        LET persona == "Elio"
            table == get_hmm(hmms, persona)
        IN  \E hmm \in update_state(HmmAt(table, LowerName(persona)), message,
                                    [given |-> TRUE, turns |-> <<>>]) :
            LET mood == IF 10 * ml.mood_conf > 7 * ConfScale THEN ml.mood
                        ELSE hmm.current_mood
                topic == IF 10 * ml.intent_conf > 6 * ConfScale THEN ml.intent
                         ELSE hmm.current_topic
                context == [persona |-> persona, scenario |-> "",
                            mood |-> mood, history |-> <<>>]
                cands == generate_candidates(strategies, arms, outcomes).cands
                personalise == user_id # "" /\ cands # <<>>
                got == get_similar_users(user_prefs, similarity_cache,
                                         cache_dirty, user_id)
                passed == IF personalise
                          THEN Personalized(user_prefs, global_prefs,
                                            got.similar, user_id, cands)
                          ELSE cands
            IN  /\ TrackedTurns(hmm.history) <= MaxTurns
                /\ hmms' = HmmPut(table, hmm)
                /\ similarity_cache' = IF personalise THEN got.cache
                                       ELSE similarity_cache
                /\ cache_dirty' = IF personalise THEN got.dirty
                                  ELSE cache_dirty
                /\ IF cands = <<>>
                   THEN \E base \in BaseReplies :
                          /\ reply_call' =
                               [kind |-> "reply", user_id |-> user_id,
                                ml |-> ml, generated |-> cands,
                                passed |-> <<>>,
                                response |->
                                    DictSet(DictSet(base, "strategy",
                                                    "fallback_base"),
                                            "mood", mood)]
                          /\ UNCHANGED engine_last_selection
                   ELSE \E out \in route(blocked_patterns, persona_meta,
                                         context, passed, <<>>) :
                          LET selected == out[2].cand
                              style == IF personalise /\ out[2].idx # 0
                                       THEN classify_response_style(
                                                selected.text)
                                       ELSE <<>>
                          IN  /\ engine_last_selection' =
                                   [kind |-> "selection",
                                    strategy |-> selected.source,
                                    user_id |-> user_id,
                                    response_text |-> selected.text,
                                    style |-> style]
                              /\ reply_call' =
                                   [kind |-> "reply", user_id |-> user_id,
                                    ml |-> ml, generated |-> cands,
                                    passed |-> passed,
                                    response |->
                                       [text |-> selected.text,
                                        persona |-> persona,
                                        strategy |-> selected.source,
                                        mood |-> mood, topic |-> topic,
                                        confidence |-> selected.confidence,
                                        metadata |-> style,
                                        ml_analysis |->
                                           [intent |-> ml.intent,
                                            intent_confidence |-> ml.intent_conf,
                                            mood |-> ml.mood,
                                            mood_confidence |-> ml.mood_conf]]]
    /\ UNCHANGED <<cascadeVars, banditVars, ensembleVars, reloadVars,
                   feedback_call, hmm_call, user_prefs, global_prefs, cf_read,
                   trieVars, loopVars, personaVars, rerouteVars,
                   scoreVars, selectVars, trialVars, pendingVars, cfLoopVars>>

\* the response has been sent
ReplyReturns ==
    /\ reply_call # NoReplyCall
    /\ reply_call' = NoReplyCall
    /\ UNCHANGED <<cascadeVars, banditVars, ensembleVars, reloadVars,
                   feedbackVars, hmmVars, cfVars, trieVars, loopVars,
                   personaVars, rerouteVars, scoreVars, selectVars,
                   trialVars, pendingVars, cfLoopVars>>

(***************************************************************************)
(*   PersonaLogicEngine._resolve_persona (services/persona_logic.py)       *)
(*                                                                         *)
(*   A persona string is the sequence of its characters.                   *)
(***************************************************************************)

\* ---- bound ----
MaxNames == 2           \* personas configured in data/personas.json

\* names a personas.json can configure
NamePool == { <<"E", "l">>, <<"E", "l", "o">>, <<"L", "o">>, <<"O">> }

\* persona arguments: '', ' ', 'el', ' El ', 'elo', 'ee', 'ee l', 'Lo'
PersonaInputs ==
    { <<>>, <<" ">>, <<"e", "l">>, <<" ", "E", "l", " ">>, <<"e", "l", "o">>,
      <<"e", "e">>, <<"e", "e", " ", "l">>, <<"L", "o">> }

DefaultName == <<"d", "e", "f", "a", "u", "l", "t">>

lower_of(c) == CASE c = "E" -> "e" [] c = "L" -> "l" [] c = "O" -> "o"
                 [] OTHER -> c
upper_of(c) == CASE c = "e" -> "E" [] c = "l" -> "L" [] c = "o" -> "O"
                 [] OTHER -> c

\* str.lower()
str_lower(s) == [i \in 1..Len(s) |-> lower_of(s[i])]

\* str.lstrip() and str.strip()
RECURSIVE lstrip(_)
lstrip(s) == IF s # <<>> /\ Head(s) = " " THEN lstrip(Tail(s)) ELSE s

RECURSIVE strip(_)
strip(s) ==
    LET l == lstrip(s)
    IN  IF l # <<>> /\ l[Len(l)] = " " THEN strip(SubSeq(l, 1, Len(l) - 1))
        ELSE l

\* a in b
str_in(a, b) ==
    \E i \in 0..(Len(b) - Len(a)) : SubSeq(b, i + 1, i + Len(a)) = a

\* str.split(): the whitespace-separated tokens
RECURSIVE split(_)
split(s) ==
    LET l == lstrip(s)
        ends == {i \in 1..Len(l) : l[i] = " "}
        n == IF ends = {} THEN Len(l)
             ELSE (CHOOSE i \in ends : \A j \in ends : i <= j) - 1
    IN  IF l = <<>> THEN <<>>
        ELSE <<SubSeq(l, 1, n)>> \o split(SubSeq(l, n + 1, Len(l)))

\* str.title() of a token of letters
title(s) ==
    [i \in 1..Len(s) |-> IF i = 1 THEN upper_of(s[i]) ELSE lower_of(s[i])]

\* the two tests of the loop body for one configured name
NameIsEqual(clean, name) == str_lower(clean) = str_lower(name)
NameOverlaps(clean, name) ==
    \/ str_in(str_lower(clean), str_lower(name))
    \/ str_in(str_lower(name), str_lower(clean))

\* the loop of _resolve_persona from name i on: the first name that equals
\* or overlaps the input, <<>> when the loop ends without a return
RECURSIVE FirstHit(_, _, _)
FirstHit(names, clean, i) ==
    IF i > Len(names) THEN <<>>
    ELSE IF NameIsEqual(clean, names[i]) \/ NameOverlaps(clean, names[i])
         THEN <<names[i]>>
         ELSE FirstHit(names, clean, i + 1)

\* PersonaLogicEngine._resolve_persona: the name returned, or IndexError
\* from split()[0] of a string without tokens
resolve_persona(names, persona) ==
    IF persona = <<>> THEN [kind |-> "return", name |-> DefaultName]
    ELSE LET clean == strip(persona)
             hit == FirstHit(names, clean, 1)
         IN  IF hit # <<>> THEN [kind |-> "return", name |-> hit[1]]
             ELSE IF split(clean) = <<>>
                  THEN [kind |-> "raise", name |-> <<>>]
             ELSE LET token == title(strip(split(clean)[1]))
                  IN  [kind |-> "return",
                       name |-> IF token = <<>> THEN DefaultName ELSE token]

\* the keys of a persona_meta dict, in file order
PersonaConfigs ==
    {names \in UNION {[1..n -> NamePool] : n \in 0..MaxNames} :
        \A i, j \in 1..Len(names) : names[i] = names[j] => i = j}

NoResolve == [kind |-> "none"]

\* PersonaLogicEngine.__init__: persona_meta as _load_persona_meta reads it
PersonaInit ==
    /\ persona_names \in PersonaConfigs
    /\ resolve_call = NoResolve

DefaultPersonaInit ==
    /\ persona_names = <<>>
    /\ resolve_call = NoResolve

\* engine._resolve_persona(persona)
ResolvePersona ==
    /\ resolve_call = NoResolve
    /\ \E persona \in PersonaInputs :
          resolve_call' = [kind |-> "call", persona |-> persona,
                           result |-> resolve_persona(persona_names, persona)]
    /\ UNCHANGED persona_names

\* the caller has the persona key
ResolveReturns ==
    /\ resolve_call # NoResolve
    /\ resolve_call' = NoResolve
    /\ UNCHANGED persona_names

(***************************************************************************)
(*   CascadeRouter.route called again on the same Candidate objects        *)
(*   (services/cascade.py; tests/test_cascade.py routes one list 50 times) *)
(***************************************************************************)

\* ---- bound ----
MaxRoutes == 2          \* route() calls on one list of Candidate objects

\* the cf_scores arguments of the calls made
CfScoreArgs == {call.cf_scores : call \in RouteCalls}

RerouteInit == route_log = <<>>

\* the caller builds the Candidate objects and the context of a request
BuildCandidates ==
    /\ route_log = <<>>
    /\ routed = NoResult
    /\ \E call \in RouteCalls, cands \in CandidateLists :
          /\ candidates' = cands
          /\ routeCtx' = call.context
          /\ route_log' = <<[cands |-> cands, safe |-> <<>>]>>
    /\ UNCHANGED <<blocked_patterns, persona_meta, routed>>

\* router.route(context, candidates, cf_scores) on the objects the caller
\* holds: the objects are changed in place
RouteHeld ==
    /\ route_log # <<>>
    /\ Len(route_log) <= MaxRoutes
    /\ \E cf_scores \in CfScoreArgs :
       \E out \in route(blocked_patterns, persona_meta, routeCtx, candidates,
                        cf_scores) :
          /\ candidates' = out[1]
          /\ routed' = out[2]
          /\ route_log' =
                Append(route_log,
                       [cands |-> out[1],
                        safe |-> apply_safety_rules(blocked_patterns,
                                                    candidates)])
    /\ UNCHANGED <<blocked_patterns, persona_meta, routeCtx>>

\* the caller drops the objects
DropCandidates ==
    /\ Len(route_log) > 1
    /\ candidates' = <<>>
    /\ routeCtx' = NoContext
    /\ routed' = NoResult
    /\ route_log' = <<>>
    /\ UNCHANGED <<blocked_patterns, persona_meta>>

(***************************************************************************)
(*   CascadeRouter._score_context_fit over conversation histories          *)
(*   (services/cascade.py)                                                 *)
(***************************************************************************)

\* ---- bound ----
MaxHistory == 4         \* turns of context['history']

\* the turns of a history
HistoryTurns ==
    {[role |-> r, content |-> c] :
        r \in {"user", "assistant"},
        c \in {Words(<<"hello", "space">>), Words(<<"well">>)}}

Histories == UNION {[1..n -> HistoryTurns] : n \in 0..MaxHistory}

\* the candidates scored: all pass the safety rules
ScoredCandidates ==
    { Candidate(Words(<<"hello", "space">>), "ngram_blend", 8000),
      Candidate(Words(<<"hello", "space", "wow!">>), "template_fill", 9000),
      Candidate(Words(<<"hello", "well">>), "tfidf_markov", 9000) }

\* the other keys of the context: each missing or present
ScoreContexts ==
    {[persona |-> "", scenario |-> s, mood |-> m, history |-> h] :
        s \in {"", "greeting"}, m \in {"", "excited"}, h \in Histories}

NoScore == [kind |-> "none"]

ScoreInit == scored_call = NoScore

\* router._score_context_fit([candidate], context)
ScoreContextFit ==
    /\ scored_call = NoScore
    /\ \E cand \in ScoredCandidates, context \in ScoreContexts :
          scored_call' =
              [kind |-> "scored", context |-> context, before |-> cand,
               after |-> score_context_fit(persona_meta, <<cand>>, <<1>>,
                                           context)[1]]

\* the scored candidate goes on to selection
ScoreReturns ==
    /\ scored_call # NoScore
    /\ scored_call' = NoScore

(***************************************************************************)
(*   EnsembleGenerator.select_candidate and the diversity history          *)
(*   (services/ensemble.py)                                                *)
(***************************************************************************)

max_recent == 10        \* self._max_recent

\* the scored candidate lists handed to select_candidate
SelectPool ==
    << Candidate(Words(<<"hello", "space">>), "tfidf_markov", 8000),
       Candidate(Words(<<"hello">>), "ngram_blend", 9000) >>

SelectLists == SubLists(SelectPool, 2)

SelectMethods == {"best", "weighted_random", "thompson"}

\* _track_output
track_output(recent, text) ==
    LET appended == Append(recent, text)
    IN  IF Len(appended) > max_recent THEN Tail(appended) ELSE appended

\* max(candidates, key=lambda c: c.final_score): the first of the maxima
BestIndex(cands) ==
    CHOOSE i \in 1..Len(cands) :
        /\ \A j \in 1..Len(cands) : final_score(cands[j]) <= final_score(cands[i])
        /\ \A j \in 1..(i - 1) : final_score(cands[j]) < final_score(cands[i])

\* the 'weighted_random' branch: every candidate has weight >= 0.05 and can
\* be drawn; the drawn one is tracked
weighted_random(cands, recent) ==
    {[chosen |-> i, recent |-> track_output(recent, cands[i].text),
      arm |-> ""] : i \in 1..Len(cands)}

\* the first candidate whose source is the arm, 0 when there is none
FromArm(cands, arm) ==
    LET hits == {i \in 1..Len(cands) : cands[i].source = arm}
    IN  IF hits = {} THEN 0 ELSE CHOOSE i \in hits : \A j \in hits : i <= j

\* EnsembleGenerator.select_candidate: the outcomes a call can have, each
\* with the diversity history afterwards and the arm the bandit selected
select_candidate(cands, method, armset, recent) ==
    IF cands = <<>> THEN {[chosen |-> 0, recent |-> recent, arm |-> ""]}
    ELSE CASE method = "best" ->
                {[chosen |-> BestIndex(cands), recent |-> recent, arm |-> ""]}
           [] method = "weighted_random" -> weighted_random(cands, recent)
           [] method = "thompson" ->
                UNION {IF FromArm(cands, arm) # 0
                       THEN {[chosen |-> FromArm(cands, arm),
                              recent |-> track_output(
                                  recent, cands[FromArm(cands, arm)].text),
                              arm |-> arm]}
                       ELSE {[o EXCEPT !.arm = arm] :
                                o \in weighted_random(cands, recent)} :
                       arm \in armset}
           [] OTHER -> {[chosen |-> 1, recent |-> recent, arm |-> ""]}

NoSelect == [kind |-> "none"]

\* EnsembleGenerator.__init__
SelectInit ==
    /\ recent_outputs = <<>>
    /\ select_call = NoSelect

\* ensemble.select_candidate(candidates, method)
SelectCandidate ==
    /\ select_call = NoSelect
    /\ \E cands \in SelectLists, method \in SelectMethods :
       \E out \in select_candidate(cands, method, DOMAIN arms, recent_outputs) :
          /\ out.arm # "" => selection_count[out.arm] < MaxSelections
          /\ recent_outputs' = out.recent
          /\ select_call' =
                [kind |-> "call", method |-> method, before |-> recent_outputs,
                 result |-> IF out.chosen = 0 THEN [kind |-> "None"]
                            ELSE [kind |-> "candidate",
                                  text |-> cands[out.chosen].text]]
          /\ IF out.arm = "" THEN UNCHANGED <<last_selection, selection_count>>
             ELSE /\ last_selection' = out.arm
                  /\ selection_count' =
                        [selection_count EXCEPT ![out.arm] = @ + 1]
    /\ UNCHANGED <<arm_names, arms, checkpoint>>

\* the caller has the selected candidate
SelectReturns ==
    /\ select_call # NoSelect
    /\ select_call' = NoSelect
    /\ UNCHANGED <<recent_outputs, banditVars>>

(***************************************************************************)
(*   ResponseStyleCF.update repeated for one user, dimension and style     *)
(*   (services/response_cf.py; tests/test_response_cf.py)                  *)
(***************************************************************************)

\* the (dimension, style) pairs updated repeatedly
TrialPairs == {<<"length", "long">>, <<"tone", "casual">>}

\* engagement arguments of the positive branch: 0.5, 0.75 and 1.0
PositiveEngagements == {e \in 1..Unit : 2 * e >= Unit}

NoTrial == [count |-> 0]

TrialInit == cf_trial = NoTrial

\* cf.update(user_id, {dimension: style}, engagement), once more for the
\* same user, dimension and style
CfUpdateAgain ==
    /\ cf_read = NoRead
    /\ cf_trial.count < MaxObservations
    /\ \E user_id \in CfUsers, pair \in TrialPairs,
          engagement \in PositiveEngagements :
        LET response_styles == (pair[1] :> pair[2])
        IN  /\ cf_trial # NoTrial =>
                  cf_trial.user_id = user_id /\ cf_trial.pair = pair
            /\ user_prefs' = cf_update(user_prefs, user_id, response_styles,
                                       engagement)
            /\ global_prefs' = cf_update_global(global_prefs, response_styles,
                                                engagement)
            /\ cache_dirty' = TRUE
            /\ cf_trial' =
                  [count |-> cf_trial.count + 1, user_id |-> user_id,
                   pair |-> pair,
                   before |-> IF cf_trial = NoTrial
                              THEN get_user_style_score(user_prefs,
                                       global_prefs, user_id, pair)
                              ELSE cf_trial.before]
    /\ UNCHANGED <<similarity_cache, cf_read>>

(***************************************************************************)
(*   Replies whose feedback has not arrived yet                            *)
(*   (EnhancedPersonaLogicEngine.reply and record_feedback)                *)
(***************************************************************************)

\* ---- bound ----
MaxPending == 2         \* replies sent and not yet rated

PendingInit == awaiting = <<>>

\* engine.reply(persona, message, history, user_id): the reply is sent and
\* its reader may rate it later
ReplySent ==
    /\ feedback_call = NoCall
    /\ Len(awaiting) < MaxPending
    /\ \E user \in ReplyUsers : \E out \in ReplyOutcomes(user) :
          /\ out.kind = "selected"
          /\ LET selection ==
                    [kind |-> "selection", strategy |-> out.source,
                     user_id |-> user, response_text |-> out.text,
                     style |-> IF out.styled
                               THEN classify_response_style(out.text)
                               ELSE <<>>]
             IN  /\ engine_last_selection' = selection
                 /\ awaiting' = Append(awaiting, selection)
    /\ UNCHANGED <<feedback_call, banditVars, cfVars>>

\* engine.record_feedback(reward, None, user_id) for the oldest reply not
\* yet rated; user_id is left out or is the user the reply went to
FeedbackForFirst ==
    /\ feedback_call = NoCall
    /\ awaiting # <<>>
    /\ \E reward \in FeedbackRewards, user_id \in {"", Head(awaiting).user_id} :
        LET after == record_feedback(engine_last_selection, arms, user_prefs,
                                     global_prefs, cache_dirty,
                                     reward, "", user_id)
        IN  /\ WithinCap(after.arms)
            /\ WithinScale(after.user_prefs)
            /\ arms' = after.arms
            /\ user_prefs' = after.user_prefs
            /\ global_prefs' = after.global_prefs
            /\ cache_dirty' = after.cache_dirty
            /\ feedback_call' = [kind |-> "call", reward |-> reward,
                                 strategy |-> "", user_id |-> user_id]
    /\ awaiting' = Tail(awaiting)
    /\ UNCHANGED <<engine_last_selection, arm_names, selection_count,
                   last_selection, checkpoint, similarity_cache, cf_read>>

(***************************************************************************)
(*   Requests that update and read the style preferences                   *)
(*   (api/routers/hybrid_router.py: /cf/update, /cf/preferences, /reply)   *)
(*                                                                         *)
(*   ResponseStyleCF.update and _get_similar_users step by step, under     *)
(*   the scheduling of the asyncio event loop uvicorn runs the handlers    *)
(*   on: they are coroutines without an await.                             *)
(***************************************************************************)

\* ---- bound ----
MaxCfRequests == 2      \* requests in flight together

CfRequestIds == 1..MaxCfRequests

\* an update of a style of u2, or a read of a user's similar users
CfRequestArgs ==
    { [kind |-> "update", user_id |-> "u2", styles |-> [length |-> "short"]],
      [kind |-> "update", user_id |-> "u2", styles |-> [tone |-> "warm"]],
      [kind |-> "read", user_id |-> "u1", styles |-> <<>>],
      [kind |-> "read", user_id |-> "u2", styles |-> <<>>] }

NoCfRequest ==
    [pc |-> "idle", kind |-> "", user_id |-> "", styles |-> <<>>,
     overlap |-> FALSE, rebuilt |-> FALSE]

\* a handler between its first access to the preferences and its return
CfRunning(req) == req.pc \in {"written", "rebuilding", "rebuilt"}

InFlight(req) == req.pc \notin {"idle", "done"}

\* scheduling by preemptive threads: any request may take the next step
cf_may_run_preemptive(reqs, t) == TRUE

\* scheduling by the event loop: a coroutine that never awaits is run to
\* its return before the loop starts another one
cf_may_run(reqs, t) == \A o \in DOMAIN reqs : o # t => ~CfRunning(reqs[o])

\* ResponseStyleCF() as it is, or after cf.update('u1', {'length': 'short'},
\* 0.5)
CfLoopInit ==
    /\ \/ /\ user_prefs = NoPrefs
          /\ global_prefs = [k \in StylePairs |-> PriorCounter]
       \/ /\ user_prefs = cf_update(NoPrefs, "u1", [length |-> "short"],
                                    Unit \div 2)
          /\ global_prefs = cf_update_global(
                                [k \in StylePairs |-> PriorCounter],
                                [length |-> "short"], Unit \div 2)
    /\ similarity_cache = <<>>
    /\ cache_dirty = TRUE
    /\ cf_read = NoRead
    /\ cf_requests = [t \in CfRequestIds |-> NoCfRequest]

DefaultCfLoopInit == cf_requests = [t \in CfRequestIds |-> NoCfRequest]

\* a request arrives while others may still be waiting
CfAccept ==
    /\ \E t \in CfRequestIds, args \in CfRequestArgs :
        /\ cf_requests[t].pc = "idle"
        /\ cf_requests' = [cf_requests EXCEPT ![t] =
              [NoCfRequest EXCEPT
                  !.pc = "accepted", !.kind = args.kind,
                  !.user_id = args.user_id, !.styles = args.styles,
                  !.overlap = \E o \in CfRequestIds : InFlight(cf_requests[o])]]
    /\ UNCHANGED cfVars

\* update: the loop over response_styles writes user_prefs and global_prefs
CfWrite ==
    /\ \E t \in CfRequestIds :
        LET req == cf_requests[t]
        IN  /\ req.pc = "accepted" /\ req.kind = "update"
            /\ cf_may_run(cf_requests, t)
            /\ user_prefs' = cf_update(user_prefs, req.user_id, req.styles,
                                       Unit \div 2)
            /\ global_prefs' = cf_update_global(global_prefs, req.styles,
                                                Unit \div 2)
            /\ cf_requests' = [cf_requests EXCEPT ![t].pc = "written"]
    /\ UNCHANGED <<similarity_cache, cache_dirty, cf_read>>

\* update: self._cache_dirty = True
CfMarkDirty ==
    /\ \E t \in CfRequestIds :
        /\ cf_requests[t].pc = "written"
        /\ cf_may_run(cf_requests, t)
        /\ cache_dirty' = TRUE
        /\ cf_requests' = [cf_requests EXCEPT ![t].pc = "done"]
    /\ UNCHANGED <<user_prefs, global_prefs, similarity_cache, cf_read>>

\* _get_similar_users: `if self._cache_dirty`; a clean cache is read as it is
CfCheckDirty ==
    /\ \E t \in CfRequestIds :
        LET req == cf_requests[t]
        IN  /\ req.pc = "accepted" /\ req.kind = "read"
            /\ cf_may_run(cf_requests, t)
            /\ cf_requests' = [cf_requests EXCEPT ![t].pc =
                  IF cache_dirty THEN "rebuilding" ELSE "done"]
    /\ UNCHANGED cfVars

\* _rebuild_similarity_cache: clear, then the similarities of the users
CfRebuild ==
    /\ \E t \in CfRequestIds :
        /\ cf_requests[t].pc = "rebuilding"
        /\ cf_may_run(cf_requests, t)
        /\ similarity_cache' = rebuild_similarity_cache(user_prefs)
        /\ cf_requests' = [cf_requests EXCEPT ![t].pc = "rebuilt",
                                              ![t].rebuilt = TRUE]
    /\ UNCHANGED <<user_prefs, global_prefs, cache_dirty, cf_read>>

\* _rebuild_similarity_cache: self._cache_dirty = False; the cache is read
CfMarkClean ==
    /\ \E t \in CfRequestIds :
        /\ cf_requests[t].pc = "rebuilt"
        /\ cf_may_run(cf_requests, t)
        /\ cache_dirty' = FALSE
        /\ cf_requests' = [cf_requests EXCEPT ![t].pc = "done"]
    /\ UNCHANGED <<user_prefs, global_prefs, similarity_cache, cf_read>>

vars == <<cascadeVars, banditVars, ensembleVars, reloadVars, feedbackVars,
          hmmVars, cfVars, trieVars, loopVars, replyVars, personaVars,
          rerouteVars, scoreVars, selectVars, trialVars, pendingVars,
          cfLoopVars>>

\* What the operations of one component leave alone.
exceptCascade == <<banditVars, ensembleVars, reloadVars, feedbackVars,
                   hmmVars, cfVars, trieVars, loopVars, replyVars,
                   personaVars, rerouteVars, scoreVars, selectVars, trialVars,
                   pendingVars, cfLoopVars>>

exceptBandit == <<cascadeVars, ensembleVars, reloadVars, feedbackVars,
                  hmmVars, cfVars, trieVars, loopVars, replyVars, personaVars,
                  rerouteVars, scoreVars, selectVars, trialVars, pendingVars,
                  cfLoopVars>>

exceptEnsemble == <<cascadeVars, reloadVars, feedbackVars, hmmVars, cfVars,
                    trieVars, loopVars, replyVars, personaVars, rerouteVars,
                    scoreVars, selectVars, trialVars, pendingVars,
                    cfLoopVars>>

exceptReload == <<cascadeVars, banditVars, ensembleVars, feedbackVars,
                  hmmVars, cfVars, trieVars, loopVars, replyVars, personaVars,
                  rerouteVars, scoreVars, selectVars, trialVars, pendingVars,
                  cfLoopVars>>

exceptFeedback == <<cascadeVars, ensembleVars, reloadVars, hmmVars, trieVars,
                    loopVars, replyVars, personaVars, rerouteVars, scoreVars,
                    selectVars, trialVars, pendingVars, cfLoopVars>>

\* ---- the cascade router on its own ----
Init ==
    /\ CascadeInit
    /\ DefaultBanditInit
    /\ EnsembleInit
    /\ DefaultReloadInit
    /\ FeedbackInit
    /\ HmmInit
    /\ CfInit
    /\ DefaultTrieInit
    /\ LoopInit
    /\ ReplyInit
    /\ DefaultPersonaInit
    /\ RerouteInit
    /\ ScoreInit
    /\ SelectInit
    /\ TrialInit
    /\ PendingInit
    /\ DefaultCfLoopInit

Next ==
    \/ Route /\ UNCHANGED exceptCascade
    \/ ReleaseCandidates /\ UNCHANGED exceptCascade
    \/ AddBlockedPattern /\ UNCHANGED exceptCascade
    \/ SetPersonaMeta /\ UNCHANGED exceptCascade

Spec == Init /\ [][Next]_vars

\* ---- the bandit on its own ----
BanditNext ==
    \/ Update /\ UNCHANGED exceptBandit
    \/ BatchUpdate /\ UNCHANGED exceptBandit
    \/ Reset /\ UNCHANGED exceptBandit
    \/ ResetAll /\ UNCHANGED exceptBandit
    \/ AddArm /\ UNCHANGED exceptBandit
    \/ RemoveArm /\ UNCHANGED exceptBandit
    \/ SelectArm /\ UNCHANGED exceptBandit

SpecBandit == Init /\ [][BanditNext]_vars

\* ---- a one-armed bandit with its checkpoint ----
InitStore ==
    /\ CascadeInit
    /\ BanditInit
    /\ Len(arm_names) <= 1
    /\ EnsembleInit
    /\ DefaultReloadInit
    /\ FeedbackInit
    /\ HmmInit
    /\ CfInit
    /\ DefaultTrieInit
    /\ LoopInit
    /\ ReplyInit
    /\ DefaultPersonaInit
    /\ RerouteInit
    /\ ScoreInit
    /\ SelectInit
    /\ TrialInit
    /\ PendingInit
    /\ DefaultCfLoopInit

StoreNext ==
    \/ Update /\ UNCHANGED exceptBandit
    \/ Reset /\ UNCHANGED exceptBandit
    \/ SelectArm /\ UNCHANGED exceptBandit
    \/ SaveState /\ UNCHANGED exceptBandit
    \/ LoadState /\ UNCHANGED exceptBandit

SpecBanditStore == InitStore /\ [][StoreNext]_vars

\* ---- the ensemble over a bandit handed to its constructor ----
InitEnsemble ==
    /\ CascadeInit
    /\ BanditInit
    /\ EnsembleInit
    /\ DefaultReloadInit
    /\ FeedbackInit
    /\ HmmInit
    /\ CfInit
    /\ DefaultTrieInit
    /\ LoopInit
    /\ ReplyInit
    /\ DefaultPersonaInit
    /\ RerouteInit
    /\ ScoreInit
    /\ SelectInit
    /\ TrialInit
    /\ PendingInit
    /\ DefaultCfLoopInit

EnsembleNext ==
    \/ RegisterStrategy /\ UNCHANGED exceptEnsemble
    \/ GenerateCandidates /\ UNCHANGED exceptEnsemble
    \/ ReleaseGenerated /\ UNCHANGED exceptEnsemble

SpecEnsemble == InitEnsemble /\ [][EnsembleNext]_vars

\* ---- reload, status and reply requests ----
InitReload ==
    /\ CascadeInit
    /\ DefaultBanditInit
    /\ EnsembleInit
    /\ ReloadInit
    /\ FeedbackInit
    /\ HmmInit
    /\ CfInit
    /\ DefaultTrieInit
    /\ LoopInit
    /\ ReplyInit
    /\ DefaultPersonaInit
    /\ RerouteInit
    /\ ScoreInit
    /\ SelectInit
    /\ TrialInit
    /\ PendingInit
    /\ DefaultCfLoopInit

ReloadNext ==
    \/ EditTrainingData /\ UNCHANGED exceptReload
    \/ ReloadModels /\ UNCHANGED exceptReload
    \/ AckReload /\ UNCHANGED exceptReload
    \/ ReloadStatus /\ UNCHANGED exceptReload
    \/ LogicReply /\ UNCHANGED exceptReload

SpecReload == InitReload /\ [][ReloadNext]_vars

\* ---- replies and feedback ----
FeedbackNext ==
    \/ HybridReply /\ UNCHANGED exceptFeedback
    \/ RecordFeedback /\ UNCHANGED exceptFeedback
    \/ FeedbackReturns /\ UNCHANGED exceptFeedback

SpecFeedback == Init /\ [][FeedbackNext]_vars

\* ---- the style preferences on their own ----
exceptCf == <<cascadeVars, banditVars, ensembleVars, reloadVars, feedbackVars,
              hmmVars, trieVars, loopVars, replyVars, personaVars,
              rerouteVars, scoreVars, selectVars, trialVars, pendingVars,
              cfLoopVars>>

CfNext ==
    \/ CfUpdate /\ UNCHANGED exceptCf
    \/ CfGetUserPreferences /\ UNCHANGED exceptCf
    \/ CfReadReturns /\ UNCHANGED exceptCf

SpecCf == Init /\ [][CfNext]_vars

\* ---- the dialogue trackers of a new manager ----
exceptHmm == <<cascadeVars, banditVars, ensembleVars, reloadVars,
               feedbackVars, cfVars, trieVars, loopVars, replyVars,
               personaVars, rerouteVars, scoreVars, selectVars, trialVars,
               pendingVars, cfLoopVars>>

HmmNext ==
    \/ HmmUpdate /\ UNCHANGED exceptHmm
    \/ HmmGetState /\ UNCHANGED exceptHmm
    \/ HmmReset /\ UNCHANGED exceptHmm

SpecHmm == Init /\ [][HmmNext]_vars

\* ---- the dialogue trackers of a manager that holds 100 personas ----
InitHmmCrowded ==
    /\ CascadeInit
    /\ DefaultBanditInit
    /\ EnsembleInit
    /\ DefaultReloadInit
    /\ FeedbackInit
    /\ HmmCrowdedInit
    /\ CfInit
    /\ DefaultTrieInit
    /\ LoopInit
    /\ ReplyInit
    /\ DefaultPersonaInit
    /\ RerouteInit
    /\ ScoreInit
    /\ SelectInit
    /\ TrialInit
    /\ PendingInit
    /\ DefaultCfLoopInit

SpecHmmCrowded == InitHmmCrowded /\ [][HmmNext]_vars

\* ---- requests in flight on the shared bandit ----
exceptLoop == <<cascadeVars, arm_names, selection_count, last_selection,
                checkpoint, ensembleVars, reloadVars, feedbackVars, hmmVars,
                cfVars, trieVars, replyVars, personaVars, rerouteVars,
                scoreVars, selectVars, trialVars, pendingVars, cfLoopVars>>

LoopNext ==
    \/ Accept /\ UNCHANGED exceptLoop
    \/ Load /\ UNCHANGED exceptLoop
    \/ Store /\ UNCHANGED exceptLoop
    \/ ReadAlpha /\ UNCHANGED exceptLoop
    \/ ReadBeta /\ UNCHANGED exceptLoop

SpecLoop == Init /\ [][LoopNext]_vars

\* ---- replies of the engine with its first strategies registered ----
InitReply ==
    /\ CascadeInit
    /\ DefaultBanditInit
    /\ strategies = <<"tfidf_markov", "template_fill">>
    /\ generated = NoGen
    /\ DefaultReloadInit
    /\ FeedbackInit
    /\ HmmInit
    /\ CfInit
    /\ DefaultTrieInit
    /\ LoopInit
    /\ ReplyInit
    /\ DefaultPersonaInit
    /\ RerouteInit
    /\ ScoreInit
    /\ SelectInit
    /\ TrialInit
    /\ PendingInit
    /\ DefaultCfLoopInit

ReplyNext ==
    \/ EngineReply
    \/ ReplyReturns

SpecReply == InitReply /\ [][ReplyNext]_vars

\* ---- persona resolution over any personas.json ----
InitPersona ==
    /\ CascadeInit
    /\ DefaultBanditInit
    /\ EnsembleInit
    /\ DefaultReloadInit
    /\ FeedbackInit
    /\ HmmInit
    /\ CfInit
    /\ DefaultTrieInit
    /\ LoopInit
    /\ ReplyInit
    /\ PersonaInit
    /\ RerouteInit
    /\ ScoreInit
    /\ SelectInit
    /\ TrialInit
    /\ PendingInit
    /\ DefaultCfLoopInit

exceptPersona == <<cascadeVars, banditVars, ensembleVars, reloadVars,
                   feedbackVars, hmmVars, cfVars, trieVars, loopVars,
                   replyVars, rerouteVars, scoreVars, selectVars, trialVars,
                   pendingVars, cfLoopVars>>

PersonaNext ==
    \/ ResolvePersona /\ UNCHANGED exceptPersona
    \/ ResolveReturns /\ UNCHANGED exceptPersona

SpecPersona == InitPersona /\ [][PersonaNext]_vars

\* ---- the cascade router called repeatedly on one list ----
exceptReroute == <<banditVars, ensembleVars, reloadVars, feedbackVars,
                   hmmVars, cfVars, trieVars, loopVars, replyVars,
                   personaVars, scoreVars, selectVars, trialVars, pendingVars,
                   cfLoopVars>>

RerouteNext ==
    \/ BuildCandidates /\ UNCHANGED exceptReroute
    \/ RouteHeld /\ UNCHANGED exceptReroute
    \/ DropCandidates /\ UNCHANGED exceptReroute

SpecReroute == Init /\ [][RerouteNext]_vars

\* ---- context scoring over any history ----
exceptScore == <<cascadeVars, banditVars, ensembleVars, reloadVars,
                 feedbackVars, hmmVars, cfVars, trieVars, loopVars, replyVars,
                 personaVars, rerouteVars, selectVars, trialVars, pendingVars,
                 cfLoopVars>>

ScoreNext ==
    \/ ScoreContextFit /\ UNCHANGED exceptScore
    \/ ScoreReturns /\ UNCHANGED exceptScore

SpecScore == Init /\ [][ScoreNext]_vars

\* ---- selection by the ensemble ----
exceptSelect == <<cascadeVars, ensembleVars, reloadVars, feedbackVars,
                  hmmVars, cfVars, trieVars, loopVars, replyVars, personaVars,
                  rerouteVars, scoreVars, trialVars, pendingVars, cfLoopVars>>

SelectNext ==
    \/ SelectCandidate /\ UNCHANGED exceptSelect
    \/ SelectReturns /\ UNCHANGED exceptSelect

SpecSelect == Init /\ [][SelectNext]_vars

\* ---- one style of one user updated repeatedly ----
exceptTrial == <<cascadeVars, banditVars, ensembleVars, reloadVars,
                 feedbackVars, hmmVars, trieVars, loopVars, replyVars,
                 personaVars, rerouteVars, scoreVars, selectVars, pendingVars,
                 cfLoopVars>>

TrialNext ==
    \/ CfUpdateAgain /\ UNCHANGED exceptTrial
    \/ CfGetUserPreferences /\ UNCHANGED <<exceptTrial, trialVars>>
    \/ CfReadReturns /\ UNCHANGED <<exceptTrial, trialVars>>

SpecTrial == Init /\ [][TrialNext]_vars

\* ---- replies rated after further replies were sent ----
exceptPending == <<cascadeVars, ensembleVars, reloadVars, hmmVars, trieVars,
                   loopVars, replyVars, personaVars, rerouteVars, scoreVars,
                   selectVars, trialVars, cfLoopVars>>

PendingNext ==
    \/ ReplySent /\ UNCHANGED exceptPending
    \/ FeedbackForFirst /\ UNCHANGED exceptPending
    \/ FeedbackReturns /\ UNCHANGED <<exceptPending, pendingVars>>

SpecPending == Init /\ [][PendingNext]_vars

\* ---- requests on the shared style preferences ----
InitCfLoop ==
    /\ CascadeInit
    /\ DefaultBanditInit
    /\ EnsembleInit
    /\ DefaultReloadInit
    /\ FeedbackInit
    /\ HmmInit
    /\ CfLoopInit
    /\ DefaultTrieInit
    /\ LoopInit
    /\ ReplyInit
    /\ DefaultPersonaInit
    /\ RerouteInit
    /\ ScoreInit
    /\ SelectInit
    /\ TrialInit
    /\ PendingInit

exceptCfLoop == <<cascadeVars, banditVars, ensembleVars, reloadVars,
                  feedbackVars, hmmVars, trieVars, loopVars, replyVars,
                  personaVars, rerouteVars, scoreVars, selectVars, trialVars,
                  pendingVars>>

CfLoopNext ==
    \/ CfAccept /\ UNCHANGED exceptCfLoop
    \/ CfWrite /\ UNCHANGED exceptCfLoop
    \/ CfMarkDirty /\ UNCHANGED exceptCfLoop
    \/ CfCheckDirty /\ UNCHANGED exceptCfLoop
    \/ CfRebuild /\ UNCHANGED exceptCfLoop
    \/ CfMarkClean /\ UNCHANGED exceptCfLoop

SpecCfLoop == InitCfLoop /\ [][CfLoopNext]_vars

\* ---- a trie on its own ----
InitTrie ==
    /\ CascadeInit
    /\ DefaultBanditInit
    /\ EnsembleInit
    /\ DefaultReloadInit
    /\ FeedbackInit
    /\ HmmInit
    /\ CfInit
    /\ TrieInit
    /\ LoopInit
    /\ ReplyInit
    /\ DefaultPersonaInit
    /\ RerouteInit
    /\ ScoreInit
    /\ SelectInit
    /\ TrialInit
    /\ PendingInit
    /\ DefaultCfLoopInit

exceptTrie == <<cascadeVars, banditVars, ensembleVars, reloadVars,
                feedbackVars, hmmVars, cfVars, loopVars, replyVars,
                personaVars, rerouteVars, scoreVars, selectVars, trialVars,
                pendingVars, cfLoopVars>>

TrieNext ==
    \/ TrieInsert /\ UNCHANGED exceptTrie
    \/ TrieDelete /\ UNCHANGED exceptTrie
    \/ TrieSearch /\ UNCHANGED exceptTrie

SpecTrie == InitTrie /\ [][TrieNext]_vars

(***************************************************************************)
(*                     Properties of the cascade router                    *)
(***************************************************************************)

\* A step in which route() was called.
RouteStep == routed = NoResult /\ routed' # NoResult

\* The text violates none of the hard-reject rules under the patterns.
CleanText(text, patterns) ==
    /\ text # <<>>
    /\ \A k \in 1..Len(patterns) : \A i \in 1..Len(text) :
           Bare(text[i].w) \notin patterns[k]
    /\ WordCount(text) >= 2 /\ WordCount(text) <= 150
    /\ CountOpen(text) = CountClose(text)
    /\ CountStars(text) % 2 = 0

NoneClean(cands, patterns) ==
    \A i \in 1..Len(cands) : ~CleanText(cands[i].text, patterns)

\* C1: every call of route returns a candidate, never nothing and never an
\* exception; when no candidate passes the hard rules (empty list included)
\* the returned candidate has source 'fallback' and confidence 0.1.
C1_RouteAlwaysReturns ==
    [][RouteStep =>
        /\ routed'.kind = "candidate"
        /\ NoneClean(candidates', blocked_patterns) =>
              /\ routed'.cand.source = "fallback"
              /\ routed'.cand.confidence = ConfScale \div 10]_vars

\* A call whose non-empty list was rejected whole returned the synthesized
\* fallback.
C1_Witness ==
    /\ routed.kind = "candidate"
    /\ routed.idx = 0
    /\ routed.cand.source = "fallback"
    /\ Len(candidates) = MaxCandidates
    /\ NoneClean(candidates, blocked_patterns)

\* C2: a returned candidate whose source is not 'fallback' is one of the
\* input candidates and its text is non-empty, matches no blocked pattern
\* (added ones included), has 2..150 words, balanced braces and an even
\* number of '*'.
C2_ReturnedCandidateIsSafe ==
    [][(RouteStep /\ routed'.kind = "candidate"
                  /\ routed'.cand.source # "fallback") =>
        /\ routed'.idx \in 1..Len(candidates')
        /\ candidates'[routed'.idx] = routed'.cand
        /\ CleanText(routed'.cand.text, blocked_patterns)]_vars

\* A list holding a candidate that only an added pattern rejects, routed to
\* another of its candidates.
C2_Witness ==
    /\ Len(blocked_patterns) > Len(BLOCKED_PATTERNS)
    /\ routed.kind = "candidate"
    /\ routed.cand.source # "fallback"
    /\ routed.idx \in 1..Len(candidates)
    /\ \E i \in 1..Len(candidates) :
          /\ i # routed.idx
          /\ CleanText(candidates[i].text, BLOCKED_PATTERNS)
          /\ ~CleanText(candidates[i].text, blocked_patterns)

(***************************************************************************)
(*                       Properties of the bandit                          *)
(***************************************************************************)

\* What the update rule does to the table: reward >= 0.5 adds the reward to
\* the arm's alpha, a smaller reward adds 1 - reward to its beta; nothing
\* else changes.
C4_Effect(before, after, arm, reward) ==
    /\ DOMAIN after = DOMAIN before
    /\ \A b \in (DOMAIN before) \ {arm} : after[b] = before[b]
    /\ IF 2 * reward >= Unit
       THEN /\ after[arm].alpha = before[arm].alpha + reward
            /\ after[arm].beta = before[arm].beta
       ELSE /\ after[arm].beta = before[arm].beta + (Unit - reward)
            /\ after[arm].alpha = before[arm].alpha

\* C4: update(arm, reward) on a registered arm with reward in [0,1] changes
\* exactly one parameter of exactly that arm: alpha grows by reward when
\* reward >= 0.5, else beta grows by 1 - reward; no other arm changes.
C4_UpdateRule ==
    \A arm \in DOMAIN arms : \A reward \in 0..Unit :
        C4_Effect(arms, update(arms, arm, reward), arm, reward)

\* Both arms registered; one took a reward of 0.5, the other one of 0.25.
C4_Witness ==
    /\ DOMAIN arms = ArmIds
    /\ arms["tfidf_markov"] = [alpha |-> Unit + 2, beta |-> Unit]
    /\ arms["template_fill"] = [alpha |-> Unit, beta |-> 2 * Unit - 1]

\* A weight strictly between 0 and 1.
InOpenUnitInterval(w) ==
    /\ w.kind = "value"
    /\ w.den # 0
    /\ IF w.den > 0 THEN 0 < w.num /\ w.num < w.den
       ELSE w.den < w.num /\ w.num < 0

\* C5: getWeight(arm) is strictly between 0 and 1 in every reachable bandit
\* state and for every arm name, registered or not.
C5_WeightStrictlyInside ==
    \A arm \in ArmQueries \cup {"default"} :
        InOpenUnitInterval(get_weight(arms, arm))

\* No parameter of an arm present in both tables is lower in the second.
NoLower(before, after) ==
    \A a \in (DOMAIN before) \cap (DOMAIN after) :
        after[a].alpha >= before[a].alpha /\ after[a].beta >= before[a].beta

\* No parameter of an arm that stays registered decreases in the step.
NoDecrease == NoLower(arms, arms')

AtLeastOne(table, a) == table[a].alpha >= Unit /\ table[a].beta >= Unit

ReturnedText ==
    {i \in 1..Len(strategies) :
        /\ generated.invoked[i]
        /\ generated.outcomes[i].kind = "dict"
        /\ generated.outcomes[i].text # <<>>}

\* C3: generate_candidates never raises, and its result holds exactly one
\* candidate for each strategy that returned without raising and with
\* non-empty text, in registration order, and none for any other strategy.
C3_OneCandidatePerReturningStrategy ==
    generated # NoGen =>
        LET cands == generated.result.cands
        IN  /\ generated.result.kind = "return"
            /\ Len(cands) = Cardinality(ReturnedText)
            /\ \A k \in 1..Len(cands) :
                 LET i == KthSmallest(ReturnedText, k)
                 IN  /\ cands[k].source = strategies[i]
                     /\ cands[k].text = generated.outcomes[i].text

\* Two strategies: the first raised, the second returned text.
C3_Witness ==
    /\ generated # NoGen
    /\ Len(strategies) = 2
    /\ generated.outcomes[1].kind = "raise"
    /\ generated.outcomes[2].text # <<>>
    /\ Len(generated.result.cands) = 1

(***************************************************************************)
(*                        Properties of reload                             *)
(***************************************************************************)

\* The per-persona sample counts the models were built on.
ModelSamples(models) ==
    [p \in (DOMAIN models) \ {"default"} |-> models[p].samples]

\* C7: readers see one whole state: the models a reply was computed from
\* are the ones built from the corpus a status request reports, and the
\* reloaded engine never holds a new corpus next to old models.
C7_ReadersSeeOneState ==
    /\ (status_seen # NoStatus /\ reply_seen # NoReply) =>
           ModelSamples(reply_seen.models) = status_seen.persona_stats
    /\ ModelSamples(persona_logic_engine.models)
         = [p \in (DOMAIN persona_logic_engine.corpus.counts) \ {"default"} |->
               persona_logic_engine.corpus.counts[p]]

\* C8: a reload that fails leaves the engine's corpus and models exactly
\* as they were before it started.
C8_FailedReloadKeepsEngine ==
    [][(reload_response = "none" /\ reload_response' = "error")
          => persona_logic_engine' = persona_logic_engine]_vars

\* All the samples of a corpus: its pooled "default" entry.
CorpusSamples(corpus) ==
    IF DOMAIN corpus.counts = {} THEN 0 ELSE corpus.counts["default"]

\* C9: once a reload has succeeded, a reply is computed from the models
\* and static indices rebuilt from the reloaded corpus.
C9_RepliesUseRebuiltIndices ==
    (reload_response = "ok" /\ reply_seen # NoReply) =>
        /\ reply_seen.models = persona_logic_engine.models
        /\ reply_seen.indices.samples
             = CorpusSamples(persona_logic_engine.corpus)

(***************************************************************************)
(*                       Properties of feedback                            *)
(***************************************************************************)

\* C10: every record_feedback call changes the bandit, and a call for
\* which a user id is available, passed or remembered from the last
\* reply, also changes that user's CF preferences.
C10_FeedbackAlwaysRecorded ==
    [][(feedback_call = NoCall /\ feedback_call' # NoCall) =>
          /\ arms' # arms
          /\ \A u \in CfUsers :
               (\/ feedback_call'.user_id = u
                \/ /\ feedback_call'.user_id = ""
                   /\ engine_last_selection # NoSelection
                   /\ engine_last_selection.user_id = u)
               => user_prefs'[u] # user_prefs[u]]_vars

(***************************************************************************)
(*                 Properties of the dialogue trackers                     *)
(***************************************************************************)

\* C13: a tracker starts in mood 'neutral' and topic 'greeting' (its history
\* is empty exactly when it is new or was just reset), and after any
\* update_state and reset calls its mood is one of the 6 moods and its
\* topic one of the 6 topics.
C13_MoodAndTopicDefined ==
    \A i \in 1..Len(hmms) :
        /\ hmms[i].current_mood \in Range(MOOD_STATES)
        /\ hmms[i].current_topic \in Range(TOPIC_STATES)
        /\ hmms[i].history = <<>> =>
              /\ hmms[i].current_mood = "neutral"
              /\ hmms[i].current_topic = "greeting"

\* An updated tracker that left its initial state, next to a tracker that
\* was just reset.
C13_Witness ==
    /\ hmm_call = [op |-> "reset", persona |-> Guest(max_inactive_hmms)]
    /\ \E i, j \in 1..Len(hmms) :
        /\ hmms[i].key = "elio"
        /\ hmms[i].history # <<>>
        /\ hmms[i].current_mood = "excited"
        /\ hmms[i].current_topic = "lore"
        /\ hmms[j].key = Guest(max_inactive_hmms)
        /\ hmms[j].history = <<>>

\* C14: the stored turn history of a tracker holds at most 10 entries.
C14_HistoryAtMostTen ==
    \A i \in 1..Len(hmms) : Len(hmms[i].history) <= max_history

\* C15: a call addressed to one persona leaves the tracker of every other
\* persona in place and unchanged, and a state read changes no tracker.
C15_OtherPersonasUntouched ==
    [][\A i \in 1..Len(hmms) :
          (hmms[i].key # LowerName(hmm_call'.persona)
             \/ hmm_call'.op = "get_state")
          => /\ hmms[i].key \in Range(HmmKeys(hmms'))
             /\ HmmAt(hmms', hmms[i].key) = hmms[i]]_vars

(***************************************************************************)
(*                 Properties of the style preferences                     *)
(***************************************************************************)

\* What update(user, styleMap, engagement) does to the preference table:
\* each valid pair goes from (p, t), or from the prior, to
\* (0.95 p + g, 0.95 t + 1); nothing else changes and no counter appears
\* for an invalid pair.
C18_Effect(before, after, user, styleMap, engagement) ==
    LET g == IF 2 * engagement >= Unit THEN (engagement * CfScale) \div Unit
             ELSE (engagement * CfScale) \div (2 * Unit)
        valid == {k \in StylePairs :
                     k[1] \in DOMAIN styleMap /\ styleMap[k[1]] = k[2]}
    IN  /\ \A v \in CfUsers \ {user} : after[v] = before[v]
        /\ DOMAIN after[user] = DOMAIN before[user] \cup valid
        /\ \A k \in DOMAIN before[user] \ valid :
              after[user][k] = before[user][k]
        /\ \A k \in valid :
              LET old == IF k \in DOMAIN before[user] THEN before[user][k]
                         ELSE [pos |-> CfScale, total |-> 2 * CfScale]
              IN  /\ DecayDen * after[user][k].pos
                        = DecayNum * old.pos + DecayDen * g
                  /\ DecayDen * after[user][k].total
                        = DecayNum * old.total + DecayDen * CfScale

\* C18: update(user, styleMap, engagement) changes each valid (dimension,
\* style) counter of that user from (p, t) to (0.95 p + g, 0.95 t + 1) with
\* g = engagement if engagement >= 0.5 and 0.5 * engagement otherwise, a
\* missing counter starting from the prior; no other user's counter and no
\* other counter of this user changes, and invalid pairs are ignored.
C18_UpdateRule ==
    \A user \in CfUsers, styleMap \in StyleMaps, engagement \in Engagements :
        LET after == cf_update(user_prefs, user, styleMap, engagement)
        IN  WithinScale(after) =>
                C18_Effect(user_prefs, after, user, styleMap, engagement)

\* u1 was updated with {length: short} at engagement 0.25 and with
\* {tone: warm, length: huge} at engagement 0.5; u2 has no counters.
C18_Witness ==
    /\ DOMAIN user_prefs["u1"] = {<<"length", "short">>, <<"tone", "warm">>}
    /\ user_prefs["u1"][<<"length", "short">>] =
          [pos |-> (43 * CfScale) \div 40, total |-> (29 * CfScale) \div 10]
    /\ user_prefs["u1"][<<"tone", "warm">>] =
          [pos |-> (29 * CfScale) \div 20, total |-> (29 * CfScale) \div 10]
    /\ DOMAIN user_prefs["u2"] = {}
    /\ cache_dirty

\* C19: the flag is clear only while the cache is what a rebuild from the
\* current preferences gives, a read that blends in similar users uses the
\* similarities of the preferences as they stand at that read, and every
\* write sets the flag.
C19_ReadsUseCurrentSimilarities ==
    /\ [](~cache_dirty =>
            similarity_cache = rebuild_similarity_cache(user_prefs))
    /\ []((cf_read # NoRead /\ cf_read.use_similar) =>
            cf_read.similar =
                similar_from(user_prefs, rebuild_similarity_cache(user_prefs),
                             cf_read.user_id))
    /\ [][user_prefs' # user_prefs => cache_dirty']_vars

\* A read for u1 that found u2 similar, both having been written before.
C19_Witness ==
    /\ cf_read # NoRead
    /\ cf_read.user_id = "u1"
    /\ cf_read.use_similar
    /\ \E sim \in 1..(2 * PrefScale) : cf_read.similar = {<<"u2", sim>>}
    /\ ~cache_dirty
    /\ DOMAIN similarity_cache = {<<"u1", "u2">>}

(***************************************************************************)
(*                       Properties of the trie                            *)
(***************************************************************************)

\* what a call on `called` leaves as the answer of search(word)
SearchAfter(before, after, op, word) ==
    CASE op = "insert" -> search(after, word)
      [] op = "delete" -> ~search(after, word)
      [] OTHER -> search(after, word) = search(before, word)

\* C20: under any sequence of insert and delete the trie is a set of words:
\* insert(w) makes search(w) true, delete(w) makes search(w) false, and
\* neither changes search(v) for any other word v.
C20_SetOfWords ==
    [][ /\ SearchAfter(trie, trie', trie_call'.op, trie_call'.word)
        /\ \A v \in TrieWords \ {trie_call'.word} :
               search(trie', v) = search(trie, v) ]_vars

\* C20 as the code has it: the trie is a set of normalised words.  A call
\* on w sets search(v) for every v with the normal form of w (lowercased
\* unless the trie is case sensitive) and changes search(v) for no other v.
C20_Amended ==
    [][ \A v \in TrieWords :
          IF normalize(trie, v) = normalize(trie, trie_call'.word)
          THEN SearchAfter(trie, trie', trie_call'.op, v)
          ELSE search(trie', v) = search(trie, v) ]_vars

\* "ab" was deleted from a trie that keeps its prefix "a" and the word "ac"
C20_Witness ==
    /\ trie_call = [op |-> "delete", word |-> <<"a", "b">>]
    /\ ~search(trie, <<"a", "b">>)
    /\ <<"a", "b">> \notin DOMAIN trie.nodes
    /\ search(trie, <<"a">>)
    /\ search(trie, <<"a", "c">>)
    /\ trie.nodes[<<"a">>].count = MaxCount

(***************************************************************************)
(*            Properties of concurrent requests on the bandit              *)
(***************************************************************************)

\* the orders in which the requests of S can be taken one after another
Orders(S) ==
    {o \in [1..Cardinality(S) -> S] :
        \A i, j \in 1..Cardinality(S) : o[i] = o[j] => i = j}

\* the table after the updates of `order`, each applied whole
RECURSIVE Sequential(_, _)
Sequential(table, order) ==
    IF order = <<>> THEN table
    ELSE Sequential(update(table, requests[Head(order)].arm,
                           requests[Head(order)].reward), Tail(order))

UpdateRequests(pcs) ==
    {t \in RequestIds : requests[t].kind = "update" /\ requests[t].pc \in pcs}

\* the request read (alpha, beta) as some of the updates made so far leave
\* them, its own update among them
ReadIsSequential(t) ==
    \E S \in SUBSET UpdateRequests({"loaded", "stored", "alpha_read", "done"}) :
        /\ requests[t].kind = "update" => t \in S
        /\ \E order \in Orders(S) :
              LET table == Sequential(NewArms(arm_names, Unit, Unit), order)
              IN  /\ table[requests[t].arm].alpha = requests[t].alpha
                  /\ table[requests[t].arm].beta = requests[t].beta

HasBanditWeight(c) == c.weight = WeightOf(get_weight(arms, c.source))

\* C11: every candidate scored for selection carries the bandit's weight
\* of its own strategy, in the list generate_candidates returned and in the
\* list reply passes to the cascade router, with and without a user id.
C11_CandidatesKeepBanditWeight ==
    reply_call # NoReplyCall =>
        /\ \A i \in 1..Len(reply_call.generated) :
              HasBanditWeight(reply_call.generated[i])
        /\ \A i \in 1..Len(reply_call.passed) :
              HasBanditWeight(reply_call.passed[i])

\* C16: every response of reply reports one of the 6 moods and one of the
\* 6 topics, whatever labels and confidences the classifiers return.
C16_ReplyReportsDefinedMoodAndTopic ==
    reply_call # NoReplyCall =>
        /\ "mood" \in DOMAIN reply_call.response
        /\ reply_call.response.mood \in Range(MOOD_STATES)
        /\ "topic" \in DOMAIN reply_call.response
        /\ reply_call.response.topic \in Range(TOPIC_STATES)

\* C17: every response of reply, on the normal path and on each fallback
\* path, contains text, persona, strategy, mood, topic and confidence.
C17_ResponseHasAllFields ==
    reply_call # NoReplyCall =>
        {"text", "persona", "strategy", "mood", "topic", "confidence"}
            \subseteq DOMAIN reply_call.response

\* the stored words: the normal forms for which search returns true
StoredWords(t) == {normalize(t, w) : w \in {v \in TrieWords : search(t, v)}}

\* C28: after any sequence of insert and delete the reported word_count is
\* the number of distinct words for which search returns true.
C28_WordCountIsNumberOfWords ==
    trie.word_count = Cardinality(StoredWords(trie))

(***************************************************************************)
(*                 Properties of _resolve_persona                          *)
(***************************************************************************)

\* the configured names that contain the trimmed input or are contained in it
OverlappingNames(names, persona) ==
    {names[i] : i \in {j \in 1..Len(names) :
                          NameOverlaps(strip(persona), names[j])}}

\* C24: for every non-empty persona string, one of blanks only included, and
\* every configured set of personas, the empty one included, resolution
\* returns without raising: a configured persona whose name contains or is
\* contained in the trimmed input (case-insensitively) when there is one,
\* otherwise the capitalized first whitespace-separated token.
C24_ResolveAlwaysReturns ==
    (resolve_call # NoResolve /\ resolve_call.persona # <<>>) =>
        /\ resolve_call.result.kind = "return"
        /\ LET hits == OverlappingNames(persona_names, resolve_call.persona)
           IN  IF hits # {} THEN resolve_call.result.name \in hits
               ELSE resolve_call.result.name =
                       title(split(strip(resolve_call.persona))[1])

\* C30: an input that equals a configured persona name case-insensitively
\* resolves to that persona, also when a persona listed earlier contains the
\* input or is contained in it.
C30_ExactNameWins ==
    resolve_call # NoResolve =>
        \A i \in 1..Len(persona_names) :
            str_lower(resolve_call.persona) = str_lower(persona_names[i]) =>
                resolve_call.result =
                    [kind |-> "return", name |-> persona_names[i]]

(***************************************************************************)
(*        Properties of the persona-consistency penalty (rule 4)           *)
(***************************************************************************)

\* the route() calls made on the held objects: call k turned route_log[k]
\* into route_log[k + 1]
HeldCalls == 1..(Len(route_log) - 1)

Survives(k, i) == \E j \in 1..Len(route_log[k + 1].safe) :
                      route_log[k + 1].safe[j] = i

PassesHardRules(i) == ~HardRejected(blocked_patterns, candidates[i].text)

\* C22: a candidate that passes every hard rule but fails the persona-keyword
\* consistency check is kept among the survivors with its confidence
\* multiplied by exactly 0.7; one that passes the consistency check keeps its
\* confidence unchanged.
C22_SoftPenalty ==
    \A k \in HeldCalls : \A i \in 1..Len(candidates) :
        LET before == route_log[k].cands[i]
            after == route_log[k + 1].cands[i]
        IN  PassesHardRules(i) =>
              /\ Survives(k, i)
              /\ IF passes_persona_consistency(before, routeCtx)
                 THEN after.confidence = before.confidence
                 ELSE 10 * after.confidence = 7 * before.confidence

\* a call kept and penalised one candidate and kept another unpenalised
C22_Witness ==
    /\ Len(route_log) = 2
    /\ \E i, j \in 1..Len(candidates) :
          /\ PassesHardRules(i) /\ PassesHardRules(j)
          /\ ~passes_persona_consistency(route_log[1].cands[i], routeCtx)
          /\ passes_persona_consistency(route_log[1].cands[j], routeCtx)
          /\ Survives(1, i) /\ Survives(1, j)
          /\ route_log[1].cands[i].confidence = 5000
          /\ candidates[i].confidence = 3500
          /\ candidates[j].confidence = route_log[1].cands[j].confidence

\* C29: routing the same candidate objects more than once applies the
\* persona-consistency penalty at most once per candidate: the confidence of
\* each candidate after n calls equals its confidence after the first call.
C29_PenaltyAtMostOnce ==
    \A k \in HeldCalls : \A i \in 1..Len(candidates) :
        route_log[k + 1].cands[i].confidence =
            route_log[2].cands[i].confidence

(***************************************************************************)
(*              Properties of the history penalty                          *)
(***************************************************************************)

\* the assistant turns of a history, in order
RECURSIVE BotTurns(_)
BotTurns(history) ==
    IF history = <<>> THEN <<>>
    ELSE (IF Head(history).role = "assistant" THEN <<Head(history)>>
          ELSE <<>>) \o BotTurns(Tail(history))

\* Jaccard overlap of two word sets above 0.5
OverlapAboveHalf(a, b) ==
    /\ a \cup b # {}
    /\ 2 * Cardinality(a \cap b) > Cardinality(a \cup b)

\* the candidate repeats one of the last 3 bot turns
RepeatsRecentBotTurn(cand, history) ==
    LET bots == LastN(BotTurns(history), 3)
    IN  \E i \in 1..Len(bots) :
            OverlapAboveHalf(WordSet(cand.text), WordSet(bots[i].content))

\* the context score without the history key
ScoreWithoutHistory(call) ==
    score_context_fit(persona_meta, <<call.before>>, <<1>>,
                      [call.context EXCEPT !.history = <<>>])[1].context_score

\* C23: a candidate whose Jaccard word overlap with any of the last 3 bot
\* turns of the history exceeds 0.5 has its context score multiplied by 0.5,
\* however many user turns lie between those bot turns; a candidate with
\* overlap at most 0.5 against all three gets no history penalty.
C23_PenaltyForLastThreeBotTurns ==
    scored_call # NoScore =>
        IF RepeatsRecentBotTurn(scored_call.before, scored_call.context.history)
        THEN 2 * scored_call.after.context_score =
                 ScoreWithoutHistory(scored_call)
        ELSE scored_call.after.context_score =
                 ScoreWithoutHistory(scored_call)

(***************************************************************************)
(*              Properties of the diversity history                        *)
(***************************************************************************)

\* the history holds the texts chosen, newest last, cut to the last 10
HistoryTracks(call) ==
    /\ recent_outputs = LastN(Append(call.before, call.result.text), max_recent)
    /\ recent_outputs[Len(recent_outputs)] = call.result.text

\* C21: after each selection by any selection method (best, weighted_random,
\* thompson) the diversity history consists of the texts of the most recently
\* chosen candidates in order of selection, cut to the last 10: the text just
\* chosen is its newest entry and it never holds more than 10 entries.
C21_HistoryHoldsChosenTexts ==
    /\ Len(recent_outputs) <= max_recent
    /\ (select_call # NoSelect /\ select_call.result.kind = "candidate") =>
          HistoryTracks(select_call)

(***************************************************************************)
(*              Properties of repeated positive updates                    *)
(***************************************************************************)

\* the user's score for a style of the dimension updated
TrialScore(style) ==
    get_user_style_score(user_prefs, global_prefs, cf_trial.user_id,
                         <<cf_trial.pair[1], style>>)

\* C25: after repeated positive-engagement updates for one user, dimension
\* and style, the user's score for that style is strictly higher than before
\* the updates and strictly higher than the user's score for every style of
\* the dimension that received no update, whatever the positive engagement
\* values and the number of repetitions.
C25_PositiveUpdatesRaiseScore ==
    cf_trial # NoTrial =>
        /\ TrialScore(cf_trial.pair[2]) > cf_trial.before
        /\ \A style \in STYLE_DIMENSIONS[cf_trial.pair[1]] \ {cf_trial.pair[2]} :
              TrialScore(cf_trial.pair[2]) > TrialScore(style)

(***************************************************************************)
(*              Properties of feedback for an earlier reply                *)
(***************************************************************************)

\* the style record of a reply: its metadata style, else its text classified
StyleRecord(sel) ==
    IF sel.style # <<>> THEN sel.style
    ELSE classify_response_style(sel.response_text)

\* the user a feedback call for the reply updates
RatedUser(sel, user_id) == IF user_id # "" THEN user_id ELSE sel.user_id

\* C26: when two replies are produced before the feedback for the first one
\* arrives, feedback for the first reply that names no strategy updates the
\* arm of the strategy that produced the first reply and the style record of
\* the first reply's text for the first reply's user, never those of the
\* second reply.
C26_FeedbackGoesToFirstReply ==
    [][(awaiting # <<>> /\ awaiting' = Tail(awaiting)) =>
          LET first == Head(awaiting)
              reward == feedback_call'.reward
              uid == RatedUser(first, feedback_call'.user_id)
          IN  /\ arms' = update(arms, first.strategy, reward)
              /\ user_prefs' =
                    IF uid # "" /\ StyleRecord(first) # <<>>
                    THEN cf_update(user_prefs, uid, StyleRecord(first), reward)
                    ELSE user_prefs]_vars

(***************************************************************************)
(*        Properties of concurrent preference updates and reads            *)
(***************************************************************************)

====
